---- MODULE Spec2Model ----
(***************************************************************************)
(* Model of the bet / prop valuation and status engine of Briefing:        *)
(*   backend/briefing/props_dashboard.py  (PlayerProp, PropsDashboard,     *)
(*                                         _compute_prop_status)           *)
(*   backend/briefing/nfl_fetcher.py      (get_nfl_player_stat)            *)
(*   backend/briefing/base_fetcher.py     (find_player, _fetch_game_summary)*)
(*   backend/briefing/nba_fetcher.py      (get_nba_player_stat)            *)
(*   backend/routes/bets.py               (_refresh_combined_prop,         *)
(*                                         refresh_parlay_legs)            *)
(*                                                                         *)
(* Numbers.  Lines, scores and statistic values are multiples of one half  *)
(* in every case modelled here, so every numeric quantity is stored in     *)
(* HALF POINTS (the Python float times 2): line 45.5 is 91, a score of 3   *)
(* is 6.  On such values abs(x) < 1e-6 is x = 0 and float arithmetic is    *)
(* exact.                                                                  *)
(*                                                                         *)
(* Strings.  Names that take part in a substring test (player names,       *)
(* display names, team names, the side of a wager) are sequences of words; *)
(* str.lower() is Lower and Python's "a in b" is Contains, a contiguous    *)
(* run of words.  market_type and the status vocabulary are plain strings. *)
(***************************************************************************)
EXTENDS Integers, Sequences, FiniteSets, TLC

\* ------------------------------------------------------------------ bounds
\* largest |line| a wager is given, in half points
MaxLine == 3
\* largest |current_value| handed to the valuation engine, in half points
MaxVal == 4
\* largest score of a team (and of one period), in whole points
MaxScore == 2
\* largest id the process-wide counter hands out: the number of wagers ever
\* placed
MaxId == 2

\* ------------------------------------------------------------- vocabulary
\* Optional values: Python None is the empty tuple, a present value x is <<x>>
Null == <<>>

\* a present optional value
Some(x) == <<x>>

\* the value of a present optional
Get(o) == o[1]

\* header.status.type.state as _fetch_game_summary normalises it
Phases == {"pre", "in", "post", "unknown"}

\* the values prop_status takes
Statuses ==
  {"pending", "live_hit", "live_miss", "live_push", "won", "lost", "push", "unavailable"}

TerminalStatuses == {"won", "lost", "push", "unavailable"}

LiveStatuses == {"pending", "live_hit", "live_miss", "live_push"}

\* the tuple of team bet types refresh_props tests market_type against
TeamMarkets ==
  {"moneyline", "spread", "total_score",
   "1h_moneyline", "1h_spread", "1h_total_score",
   "1q_moneyline", "1q_spread", "1q_total_score",
   "home_team_points", "away_team_points"}

\* "moneyline" in market_type
HasMoneyline(m) == m \in {"moneyline", "1h_moneyline", "1q_moneyline"}

\* "spread" in market_type
HasSpread(m) == m \in {"spread", "1h_spread", "1q_spread"}

\* "total_score" in market_type
HasTotalScore(m) == m \in {"total_score", "1h_total_score", "1q_total_score"}

\* market_type in ("home_team_points", "away_team_points")
IsTeamTotal(m) == m \in {"home_team_points", "away_team_points"}

\* market_type.startswith("1q_")
StartsWith1q(m) == m \in {"1q_moneyline", "1q_spread", "1q_total_score"}

\* market_type.startswith("1h_")
StartsWith1h(m) == m \in {"1h_moneyline", "1h_spread", "1h_total_score"}

\* ---------------------------------------------------------------- strings
\* str.lower() on one word
LowerWord(w) ==
  CASE w = "Josh" -> "josh"
    [] w = "Keenan" -> "keenan"
    [] w = "Allen" -> "allen"
    [] w = "Kelce" -> "kelce"
    [] w = "Travis" -> "travis"
    [] w = "Buffalo" -> "buffalo"
    [] w = "Bills" -> "bills"
    [] w = "Kansas" -> "kansas"
    [] w = "City" -> "city"
    [] w = "Chiefs" -> "chiefs"
    [] w = "Over" -> "over"
    [] w = "Under" -> "under"
    [] w = "Jared" -> "jared"
    [] w = "Jaylen" -> "jaylen"
    [] w = "Bruce" -> "bruce"
    [] w = "Brown" -> "brown"
    [] w = "Boston" -> "boston"
    [] w = "Celtics" -> "celtics"
    [] OTHER -> w

\* str.lower()
Lower(s) == [i \in DOMAIN s |-> LowerWord(s[i])]

\* Python's  q in s  on strings: q occurs in s as a contiguous run
Contains(q, s) ==
  \E k \in 0..(Len(s) - Len(q)) : \A i \in 1..Len(q) : s[k + i] = q[i]

\* abs()
Abs(x) == IF x < 0 THEN -x ELSE x

\* game_state in ("post", "final")
IsFinal(game_state) == game_state \in {"post", "final"}

\* ------------------------------------------------- the valuation engine
\* a plausible slip: the live comparison of the player-prop tail forgets the
\* side and always compares as for over
PlayerStatusIgnoresSide(side, line, current_value, game_state) ==
  IF game_state \in {"pre", "in"}
    THEN IF current_value > line THEN "live_hit" ELSE "live_miss"
    ELSE IF Abs(current_value - line) = 0 THEN "push"
    ELSE IF current_value > line THEN "won" ELSE "lost"

\* a plausible change: the player-prop tail checks the push before the phase,
\* as the team branches do
PlayerStatusLivePush(side, line, current_value, game_state) ==
  IF Abs(current_value - line) = 0
    THEN (IF game_state \in {"pre", "in"} THEN "live_push" ELSE "push")
    ELSE IF game_state \in {"pre", "in"}
      THEN IF (IF side = <<"over">> THEN current_value > line ELSE current_value < line)
             THEN "live_hit" ELSE "live_miss"
    ELSE IF side = <<"over">>
      THEN (IF current_value > line THEN "won" ELSE "lost")
      ELSE (IF current_value < line THEN "won" ELSE "lost")

\* _compute_prop_status, the player-prop tail (lines 353-372)
PlayerStatus(side, line, current_value, game_state) ==
  IF game_state \in {"pre", "in"}
    THEN IF (IF side = <<"over">> THEN current_value > line ELSE current_value < line)
           THEN "live_hit" ELSE "live_miss"
    ELSE IF Abs(current_value - line) = 0 THEN "push"
    ELSE IF side = <<"over">>
      THEN (IF current_value > line THEN "won" ELSE "lost")
      ELSE (IF current_value < line THEN "won" ELSE "lost")

\* a plausible slip: the moneyline branch treats a tie as a push, as the
\* spread branch does
MoneylineStatusPush(current_value, game_state) ==
  IF Abs(current_value) = 0
    THEN (IF IsFinal(game_state) THEN "push" ELSE "live_push")
    ELSE IF IsFinal(game_state)
      THEN (IF current_value > 0 THEN "won" ELSE "lost")
      ELSE (IF current_value > 0 THEN "live_hit" ELSE "live_miss")

\* _compute_prop_status, the moneyline branch (lines 309-316)
MoneylineStatus(current_value, game_state) ==
  IF IsFinal(game_state)
    THEN (IF current_value > 0 THEN "won" ELSE "lost")
    ELSE (IF current_value > 0 THEN "live_hit" ELSE "live_miss")

\* _compute_prop_status, the spread branch (lines 318-330)
SpreadStatus(line, current_value, game_state) ==
  LET margin_with_spread == current_value + line IN
  IF Abs(margin_with_spread) = 0
    THEN (IF IsFinal(game_state) THEN "push" ELSE "live_push")
    ELSE IF IsFinal(game_state)
      THEN (IF margin_with_spread > 0 THEN "won" ELSE "lost")
      ELSE (IF margin_with_spread > 0 THEN "live_hit" ELSE "live_miss")

\* a plausible slip: a live total is classified like a live player prop,
\* without the early won / lost
TotalStatusSymmetric(side, line, current_value, game_state) ==
  LET is_hit == IF side = <<"over">> THEN current_value > line
                                       ELSE current_value < line IN
  IF Abs(current_value - line) = 0
    THEN (IF IsFinal(game_state) THEN "push" ELSE "live_push")
    ELSE IF IsFinal(game_state)
      THEN (IF is_hit THEN "won" ELSE "lost")
      ELSE (IF is_hit THEN "live_hit" ELSE "live_miss")

\* a plausible slip: the total branch has no push check
TotalStatusNoPush(side, line, current_value, game_state) ==
  LET is_hit == IF side = <<"over">> THEN current_value > line
                                       ELSE current_value < line IN
  IF IsFinal(game_state)
    THEN (IF is_hit THEN "won" ELSE "lost")
    ELSE IF side = <<"over">>
      THEN (IF is_hit THEN "won" ELSE "live_miss")
      ELSE (IF is_hit THEN "live_hit" ELSE "lost")

\* a plausible slip: an under that went over the line waits for the final
\* before it is lost
TotalStatusUnderWaits(side, line, current_value, game_state) ==
  LET is_hit == IF side = <<"over">> THEN current_value > line
                                       ELSE current_value < line IN
  IF Abs(current_value - line) = 0
    THEN (IF IsFinal(game_state) THEN "push" ELSE "live_push")
    ELSE IF IsFinal(game_state)
      THEN (IF is_hit THEN "won" ELSE "lost")
      ELSE IF side = <<"over">>
        THEN (IF is_hit THEN "won" ELSE "live_miss")
        ELSE (IF is_hit THEN "live_hit" ELSE "live_miss")

\* _compute_prop_status, the total / team-total branch (lines 332-351)
TotalStatus(side, line, current_value, game_state) ==
  LET is_hit == IF side = <<"over">> THEN current_value > line
                                       ELSE current_value < line IN
  IF Abs(current_value - line) = 0
    THEN (IF IsFinal(game_state) THEN "push" ELSE "live_push")
    ELSE IF IsFinal(game_state)
      THEN (IF is_hit THEN "won" ELSE "lost")
      ELSE IF side = <<"over">>
        THEN (IF is_hit THEN "won" ELSE "live_miss")
        ELSE (IF is_hit THEN "live_hit" ELSE "lost")

\* a plausible slip: a missing value is pending whatever the phase
ComputePropStatusNullPending(prop, current_value, game_state) ==
  IF current_value = Null
    THEN "pending"
    ELSE
      LET side == Lower(prop.side)
          line == prop.line
          v == Get(current_value)
      IN  IF HasMoneyline(prop.market_type)
            THEN MoneylineStatus(v, game_state)
          ELSE IF HasSpread(prop.market_type)
            THEN SpreadStatus(line, v, game_state)
          ELSE IF HasTotalScore(prop.market_type) \/ IsTeamTotal(prop.market_type)
            THEN TotalStatus(side, line, v, game_state)
          ELSE PlayerStatus(side, line, v, game_state)

\* _compute_prop_status(prop, current_value, game_state); prop is a record
\* with at least market_type, line and side, current_value is optional
ComputePropStatus(prop, current_value, game_state) ==
  IF current_value = Null
    THEN (IF IsFinal(game_state) THEN "unavailable" ELSE "pending")
    ELSE
      LET side == Lower(prop.side)
          line == prop.line
          v == Get(current_value)
      IN  IF HasMoneyline(prop.market_type)
            THEN MoneylineStatus(v, game_state)
          ELSE IF HasSpread(prop.market_type)
            THEN SpreadStatus(line, v, game_state)
          ELSE IF HasTotalScore(prop.market_type) \/ IsTeamTotal(prop.market_type)
            THEN TotalStatus(side, line, v, game_state)
          ELSE PlayerStatus(side, line, v, game_state)

\* _compute_prop_status(line, side, current_value, game_state) of the command
\* line dashboard (src/briefing/props_dashboard.py lines 170-216): one rule
\* for every wager
CliComputePropStatus(line, side, current_value, game_state) ==
  IF current_value = Null
    THEN (IF IsFinal(game_state) THEN "unavailable" ELSE "pending")
    ELSE
      LET s == Lower(side)
          v == Get(current_value)
      IN  IF game_state \in {"pre", "in"}
            THEN IF (IF s = <<"over">> THEN v > line ELSE v < line)
                   THEN "live_hit" ELSE "live_miss"
          ELSE IF Abs(v - line) = 0 THEN "push"
          ELSE IF s = <<"over">>
            THEN (IF v > line THEN "won" ELSE "lost")
            ELSE (IF v < line THEN "won" ELSE "lost")

\* ------------------------------------------------------- names and payloads
JoshAllen == <<"Josh", "Allen">>

KeenanAllen == <<"Keenan", "Allen">>

TravisKelce == <<"Travis", "Kelce">>

BuffaloBills == <<"Buffalo", "Bills">>

KansasCityChiefs == <<"Kansas", "City", "Chiefs">>

\* the empty string
Empty == <<>>

\* stat_mapping of get_nfl_player_stat: market_type -> (group, accepted keys)
StatMapping(market_type) ==
  CASE market_type = "passing_yards" -> [group |-> "passing", keys |-> {"passingYards", "passYds"}]
    [] market_type = "passing_completions" ->
         [group |-> "passing", keys |-> {"completions/passingAttempts", "C/ATT"}]
    [] market_type = "passing_attempts" ->
         [group |-> "passing", keys |-> {"completions/passingAttempts", "C/ATT"}]
    [] market_type = "rushing_yards" -> [group |-> "rushing", keys |-> {"rushingYards", "rushYds"}]
    [] market_type = "rushing_touchdowns" ->
         [group |-> "rushing", keys |-> {"rushingTouchdowns", "TD"}]
    [] market_type = "receiving_yards" ->
         [group |-> "receiving", keys |-> {"receivingYards", "recYds"}]
    [] market_type = "receiving_touchdowns" ->
         [group |-> "receiving", keys |-> {"receivingTouchdowns", "TD"}]
    [] market_type = "passing_touchdowns" ->
         [group |-> "passing", keys |-> {"passingTouchdowns", "TD"}]
    [] market_type = "passing_interceptions" ->
         [group |-> "passing", keys |-> {"interceptions", "INT"}]
    [] market_type = "longest_passing_completion" ->
         [group |-> "passing", keys |-> {"longPassing", "LNG"}]
    [] market_type = "rushing_attempts" ->
         [group |-> "rushing", keys |-> {"rushingAttempts", "CAR"}]
    [] market_type = "longest_rush" -> [group |-> "rushing", keys |-> {"longRushing", "LNG"}]
    [] market_type = "receptions" -> [group |-> "receiving", keys |-> {"receptions", "REC"}]
    [] market_type = "longest_reception" ->
         [group |-> "receiving", keys |-> {"longReception", "LNG"}]
    [] market_type = "sacks" -> [group |-> "defensive", keys |-> {"sacks", "SACK"}]
    [] market_type = "tackles_assists" ->
         [group |-> "defensive", keys |-> {"totalTackles", "TOT"}]
    [] market_type = "tackle_assists" -> [group |-> "defensive", keys |-> {"assists", "AST"}]
    [] market_type = "field_goals_made" ->
         [group |-> "kicking", keys |-> {"fieldGoalsMade", "FG"}]
    [] market_type = "extra_points_made" ->
         [group |-> "kicking", keys |-> {"extraPointsMade", "XP"}]
    [] market_type = "kicking_points" -> [group |-> "kicking", keys |-> {"points", "PTS"}]
    [] OTHER -> [group |-> "", keys |-> {}]

\* market_type in stat_mapping
InStatMapping(market_type) == StatMapping(market_type).group # ""

\* raw_val of a stats column: <<"num", n>> is the string "n", <<"frac", m, a>>
\* is the string "m/a", <<"bad">> is any text float() rejects.
\* The value parsed from it in half points, Null where the code continues
\* with the next athlete (lines 217-247)
ParseRaw(market_type, raw_val) ==
  IF raw_val[1] = "num" THEN Some(2 * raw_val[2])
  ELSE IF raw_val[1] = "bad" THEN Null
  ELSE IF market_type \in {"passing_completions", "field_goals_made", "extra_points_made"}
    THEN Some(2 * raw_val[2])
  ELSE IF market_type = "passing_attempts" THEN Some(2 * raw_val[3])
  ELSE Null

\* first index of a sequence whose element is in a set, 0 when there is none
FirstIndexIn(seq, set) ==
  IF \E i \in DOMAIN seq : seq[i] \in set
    THEN CHOOSE i \in DOMAIN seq : seq[i] \in set /\ \A j \in 1..(i - 1) : seq[j] \notin set
    ELSE 0

\* target_index of a category: by key first, by label second (lines 188-205)
TargetIndex(cat, target_keys) ==
  IF FirstIndexIn(cat.keys, target_keys) # 0
    THEN FirstIndexIn(cat.keys, target_keys)
    ELSE FirstIndexIn(cat.labels, target_keys)

\* concatenation of a sequence of sequences
RECURSIVE Flatten(_)
Flatten(seqs) ==
  IF seqs = <<>> THEN <<>> ELSE Head(seqs) \o Flatten(Tail(seqs))

\* team_info.get("displayName") or team_info.get("name", "Unknown")
BlockTeamName(team_block) ==
  IF team_block.team # Empty THEN team_block.team ELSE <<"Unknown">>

\* the result the loop body returns for one athlete row, Null where it continues
AthleteResult(athlete_stat, team_name, target_name_lower, market_type, target_index) ==
  IF ~Contains(target_name_lower, Lower(athlete_stat.displayName)) THEN Null
  ELSE IF target_index > Len(athlete_stat.stats) THEN Null
  ELSE IF ParseRaw(market_type, athlete_stat.stats[target_index]) = Null THEN Null
  ELSE Some([value |-> Get(ParseRaw(market_type, athlete_stat.stats[target_index])),
             team |-> team_name,
             player |-> athlete_stat.displayName])

\* the rows of one category of the statistic's group once target_index is
\* known (lines 207-247)
CatRows(cat, team_name, target_name_lower, market_type, target_index) ==
  IF target_index = 0 THEN <<>>
  ELSE [i \in DOMAIN cat.athletes |->
          AthleteResult(cat.athletes[i], team_name, target_name_lower,
                        market_type, target_index)]

\* the rows of one category, in order, as AthleteResult sees them: none for
\* a category of another group (lines 177-205)
CatResults(cat, team_name, target_name_lower, market_type) ==
  IF cat.name # StatMapping(market_type).group THEN <<>>
  ELSE CatRows(cat, team_name, target_name_lower, market_type,
               TargetIndex(cat, StatMapping(market_type).keys))

\* every row of the boxscore in the order the three nested loops visit it
AllResults(data, target_name_lower, market_type) ==
  Flatten([b \in DOMAIN data.players |->
    Flatten([c \in DOMAIN data.players[b].statistics |->
      CatResults(data.players[b].statistics[c], BlockTeamName(data.players[b]),
                 target_name_lower, market_type)])])

\* get_nfl_player_stat for a market of stat_mapping (lines 129-249):
\* the first row that matches the name and parses
StandardStat(data, player_name, market_type) ==
  LET
      \* the first result of a sequence that is present, Null when none is: the
      \* loops return at the first row that matches and parses
      FirstPresent(results) ==
        IF \E i \in DOMAIN results : results[i] # Null
          THEN results[CHOOSE i \in DOMAIN results :
                         results[i] # Null /\ \A j \in 1..(i - 1) : results[j] = Null]
          ELSE Null
  IN
  IF ~InStatMapping(market_type) THEN Null
  ELSE FirstPresent(AllResults(data, Lower(player_name), market_type))

\* the display names find_player walks: every athlete row of the boxscore in
\* order with its team, then the rosters of the competitors
FinderRows(data) ==
  Flatten([b \in DOMAIN data.players |->
    Flatten([c \in DOMAIN data.players[b].statistics |->
      [i \in DOMAIN data.players[b].statistics[c].athletes |->
        [display_name |-> data.players[b].statistics[c].athletes[i].displayName,
         team_name |-> BlockTeamName(data.players[b])]]])])
  \o
  Flatten([r \in DOMAIN data.rosters |->
    [i \in DOMAIN data.rosters[r].athletes |->
      [display_name |-> data.rosters[r].athletes[i],
       team_name |-> data.rosters[r].team]]])

\* find_player(sport, event_id, player_name) on the payload its own fetch
\* returned: first row whose display name contains the name
\* (base_fetcher.py lines 586-660)
FindPlayer(data, player_name) ==
  LET
      \* the first row whose display name contains the name, Null when none does
      FirstNamed(rows, name_lower) ==
        IF \E i \in DOMAIN rows : Contains(name_lower, Lower(rows[i].display_name))
          THEN Some(rows[CHOOSE i \in DOMAIN rows :
                           /\ Contains(name_lower, Lower(rows[i].display_name))
                           /\ \A j \in 1..(i - 1) :
                                ~Contains(name_lower, Lower(rows[j].display_name))])
          ELSE Null
  IN
  FirstNamed(FinderRows(data), Lower(player_name))

\* value of a looked-up base statistic, 0.0 when it was not found
ValueOr0(result) == IF result = Null THEN 0 ELSE Get(result).value

\* a or b on two optional results
OrElse(a, b) == IF a # Null THEN a ELSE b

\* a plausible slip: a derived market is found only when both bases are
SumResultNeedsBoth(a, b) ==
  IF a = Null \/ b = Null THEN Null
  ELSE Some([value |-> ValueOr0(a) + ValueOr0(b),
             team |-> Get(a).team, player |-> Get(a).player])

\* the result of a derived market from the two base results (lines 50-54)
SumResult(a, b) ==
  IF OrElse(a, b) = Null THEN Null
  ELSE Some([value |-> ValueOr0(a) + ValueOr0(b),
             team |-> Get(OrElse(a, b)).team, player |-> Get(OrElse(a, b)).player])

\* the derived markets summing two base markets (lines 47-63)
SumOfTwo(data, player_name, first, second) ==
  SumResult(StandardStat(data, player_name, first),
            StandardStat(data, player_name, second))

\* the markets whose lookup calls find_player, which fetches the game again
NeedsFinder(data, player_name, market_type) ==
  \/ /\ market_type = "anytime_touchdowns"
     /\ StandardStat(data, player_name, "rushing_touchdowns") = Null
     /\ StandardStat(data, player_name, "receiving_touchdowns") = Null
  \/ market_type \in {"first_touchdown", "last_touchdown"}

\* the result of anytime_touchdowns from the two base results and from what
\* find_player answers (lines 71-83)
AnytimeResult(rush_td, rec_td, finder) ==
  IF OrElse(rush_td, rec_td) = Null
    THEN IF finder # Null
           THEN Some([value |-> 0, team |-> Get(finder).team_name,
                      player |-> Get(finder).display_name])
           ELSE Null
    ELSE SumResult(rush_td, rec_td)

\* anytime_touchdowns (lines 65-83)
AnytimeTouchdowns(data, player_name) ==
  AnytimeResult(StandardStat(data, player_name, "rushing_touchdowns"),
                StandardStat(data, player_name, "receiving_touchdowns"),
                FindPlayer(data, player_name))

\* the result of first_touchdown / last_touchdown from the touchdown plays
\* and from what find_player answers (lines 92-124)
EventResult(td_plays, finder, market_type) ==
  LET
      \* whether the text of a scoring play names the player: by full display
      \* name or by last name (lines 111-118)
      PlayNames(play, p_name) ==
        \/ Contains(p_name, Lower(play.text))
        \/ Contains(<<p_name[Len(p_name)]>>, Lower(play.text))
  IN
  IF finder = Null THEN Null
  ELSE Some([value |-> IF td_plays = <<>> THEN 0
                       ELSE IF PlayNames(IF market_type = "first_touchdown"
                                           THEN td_plays[1] ELSE td_plays[Len(td_plays)],
                                         Lower(Get(finder).display_name))
                         THEN 2 ELSE 0,
             team |-> Get(finder).team_name, player |-> Get(finder).display_name])

\* first_touchdown / last_touchdown (lines 86-124); a scoring play is
\* [is_td, text]: whether its scoringType or type names a touchdown, its text
EventTouchdown(data, player_name, market_type) ==
  EventResult(SelectSeq(data.scoringPlays, LAMBDA play : play.is_td),
              FindPlayer(data, player_name), market_type)

\* get_nfl_player_stat(event_id, player_name, market_type, stats_payload)
GetNflPlayerStat(data, player_name, market_type) ==
  IF market_type = "rushing_receiving_yards"
    THEN SumOfTwo(data, player_name, "rushing_yards", "receiving_yards")
  ELSE IF market_type = "passing_rushing_yards"
    THEN SumOfTwo(data, player_name, "passing_yards", "rushing_yards")
  ELSE IF market_type = "anytime_touchdowns"
    THEN AnytimeTouchdowns(data, player_name)
  ELSE IF market_type \in {"first_touchdown", "last_touchdown"}
    THEN EventTouchdown(data, player_name, market_type)
  ELSE StandardStat(data, player_name, market_type)

\* ------------------------------------------------------------ refresh_props
\* the sport of the dashboard: PropsDashboard(sport="nfl"), the default
DashSport == "nfl"

\* float(score_val), 0.0 on ValueError; a score is <<"num", n>> or <<"bad">>
ScoreOf(comp) == IF comp.score[1] = "num" THEN 2 * comp.score[2] ELSE 0

\* index of the last home entry of the competitors list, 0 when there is none
LastHome(competitors) ==
  IF \E i \in DOMAIN competitors : competitors[i].homeAway = "home"
    THEN CHOOSE i \in DOMAIN competitors :
           /\ competitors[i].homeAway = "home"
           /\ \A j \in (i + 1)..Len(competitors) : competitors[j].homeAway # "home"
    ELSE 0

\* index of the last entry that is not a home entry, 0 when there is none
LastAway(competitors) ==
  IF \E i \in DOMAIN competitors : competitors[i].homeAway # "home"
    THEN CHOOSE i \in DOMAIN competitors :
           /\ competitors[i].homeAway # "home"
           /\ \A j \in (i + 1)..Len(competitors) : competitors[j].homeAway = "home"
    ELSE 0

\* the scores and names read from the entries at h and a, the defaults 0
\* and "" where the index is 0
TeamScoresAt(competitors, h, a) ==
  [home_score |-> IF h = 0 THEN 0 ELSE ScoreOf(competitors[h]),
   away_score |-> IF a = 0 THEN 0 ELSE ScoreOf(competitors[a]),
   home_team_name |-> IF h = 0 THEN Empty ELSE competitors[h].displayName,
   away_team_name |-> IF a = 0 THEN Empty ELSE competitors[a].displayName]

\* home_score, away_score, home_team_name, away_team_name after the loop over
\* header.competitions[0].competitors (lines 119-149): the last home entry and
\* the last non-home entry win
TeamScores(data) ==
  TeamScoresAt(data.competitors, LastHome(data.competitors), LastAway(data.competitors))

\* get_period_score(period_idx, is_home), period_idx counted from 0
get_period_score(data, period_idx, is_home) ==
  LET
      \* the entry of a period in a list of period scores, 0.0 past its end
      PeriodOf(target) ==
        IF period_idx < Len(target) THEN 2 * target[period_idx + 1] ELSE 0
  IN
  PeriodOf(IF is_home THEN data.linescores.home ELSE data.linescores.away)

\* get_half_score(is_home)
get_half_score(data, is_home) ==
  get_period_score(data, 0, is_home) + get_period_score(data, 1, is_home)

\* h_s, a_s and period_label of a team bet (lines 176-188)
PeriodScores(data, market_type) ==
  LET
      \* h_s, a_s and period_label of a full-game bet (lines 184-187)
      FullScores(ts) == [h_s |-> ts.home_score, a_s |-> ts.away_score, period_label |-> "Full"]
  IN
  IF StartsWith1q(market_type)
    THEN [h_s |-> get_period_score(data, 0, TRUE), a_s |-> get_period_score(data, 0, FALSE),
          period_label |-> "1Q"]
  ELSE IF StartsWith1h(market_type)
    THEN [h_s |-> get_half_score(data, TRUE), a_s |-> get_half_score(data, FALSE),
          period_label |-> "1H"]
  ELSE FullScores(TeamScores(data))

\* the differential of the period scores from the home side, from the away
\* side
HomeDiff(ps) == ps.h_s - ps.a_s

AwayDiff(ps) == ps.a_s - ps.h_s

\* a plausible slip: the differential is always taken from the home side
SignedDiffHomeOnly(p, data) == HomeDiff(PeriodScores(data, p.market_type))

\* a plausible slip: the team name is compared as the provider spells it
SignedDiffCaseSensitive(p, data) ==
  IF Contains(Lower(p.side), TeamScores(data).away_team_name)
    THEN AwayDiff(PeriodScores(data, p.market_type))
    ELSE HomeDiff(PeriodScores(data, p.market_type))

\* the score differential from the perspective of the picked team
\* (lines 196-199 and 204-207)
SignedDiff(p, data) ==
  IF Contains(Lower(p.side), Lower(TeamScores(data).away_team_name))
    THEN AwayDiff(PeriodScores(data, p.market_type))
    ELSE HomeDiff(PeriodScores(data, p.market_type))

\* value of a team bet (lines 190-222)
TeamValue(p, data) ==
  LET
      \* h_s + a_s
      SumScores(ps) == ps.h_s + ps.a_s
  IN
  IF HasTotalScore(p.market_type) THEN SumScores(PeriodScores(data, p.market_type))
  ELSE IF HasSpread(p.market_type) \/ HasMoneyline(p.market_type) THEN SignedDiff(p, data)
  ELSE IF p.market_type = "home_team_points" THEN TeamScores(data).home_score
  ELSE TeamScores(data).away_score

\* a plausible slip: every team bet without a team name gets the home team's
TeamFieldsAlways(p, ts, value_str) ==
  [p EXCEPT !.current_value_str = Some(value_str),
            !.team_name = IF p.team_name # Empty THEN p.team_name ELSE ts.home_team_name]

\* the wager with the display fields a team bet gets: team_name is filled
\* for a team total that has none (lines 212-222)
TeamFields(p, ts, value_str) ==
  [p EXCEPT !.current_value_str = Some(value_str),
            !.team_name = IF p.team_name # Empty THEN p.team_name
                          ELSE IF p.market_type = "home_team_points" THEN ts.home_team_name
                          ELSE IF p.market_type = "away_team_points" THEN ts.away_team_name
                          ELSE p.team_name]

\* the wager after the team-bet branch has set its display fields
AfterTeamBranch(p, data) ==
  LET
      \* current_value_str of a team bet (lines 190-222)
      TeamValueStr ==
        LET
            \* the parts the f-string of a team bet formats, from the period scores and
            \* the value
            TeamStrOf(market_type, ps, value) ==
              IF HasTotalScore(market_type)
                THEN <<"total", value, ps.a_s, ps.h_s, ps.period_label>>
              ELSE IF HasSpread(market_type)
                THEN <<"spread", value, ps.a_s, ps.h_s, ps.period_label>>
              ELSE IF HasMoneyline(market_type)
                THEN <<"score", ps.a_s, ps.h_s, ps.period_label>>
              ELSE <<"points", value>>
        IN
        TeamStrOf(p.market_type, PeriodScores(data, p.market_type), TeamValue(p, data))
  IN
  TeamFields(p, TeamScores(data), TeamValueStr)

\* the wager after the player branch has taken the result of the lookup
\* (lines 249-263)
AfterPlayerBranch(p, result) ==
  IF result = Null THEN p
  ELSE [p EXCEPT
          !.team_name = IF Get(result).team # Empty /\ (p.team_name = Empty \/ p.team_name = <<"-">>)
                          THEN Get(result).team ELSE p.team_name,
          !.player_name = IF Get(result).player # Empty THEN Get(result).player
                          ELSE p.player_name]

\* value of a lookup result (line 251), None when nothing was found
ValueOf(result) == IF result = Null THEN Null ELSE Some(Get(result).value)

\* the value refresh_props resolves for a wager and hands to the engine
ResolvedValue(p, data) ==
  IF p.market_type \in TeamMarkets THEN Some(TeamValue(p, data))
  ELSE ValueOf(GetNflPlayerStat(data, p.player_name, p.market_type))

\* the wager after the branch of its kind (lines 171-266)
AfterBranch(p, data) ==
  IF p.market_type \in TeamMarkets THEN AfterTeamBranch(p, data)
  ELSE AfterPlayerBranch(p, GetNflPlayerStat(data, p.player_name, p.market_type))

\* a plausible slip: the value is written as resolved, without the default
\* of a running game
WrittenNoDefault(q, value, data) ==
  [q EXCEPT !.current_value = value,
            !.game_state = data.game_state,
            !.game_status_text = data.status_detail,
            !.prop_status = ComputePropStatus(q, value, data.game_state)]

\* the derived fields written at the end of the loop body (lines 268-280);
\* q is the wager after its branch, value what the branch resolved
Written(q, value, data) ==
  [q EXCEPT
     !.current_value =
        IF value = Null /\ DashSport = "nfl" /\ data.game_state = "in"
           /\ q.market_type \notin {"moneyline", "spread", "total_score"}
          THEN Some(0) ELSE value,
     !.game_state = data.game_state,
     !.game_status_text = data.status_detail,
     !.prop_status = ComputePropStatus(q, value, data.game_state)]

\* a plausible slip: a wager that has a terminal status keeps it
RefreshOneSticky(p, data) ==
  [Written(AfterBranch(p, data), ResolvedValue(p, data), data) EXCEPT
     !.prop_status = IF p.prop_status \in TerminalStatuses THEN p.prop_status ELSE @]

\* the body of the loop over the wagers of one game (lines 167-280)
RefreshOne(p, data) == Written(AfterBranch(p, data), ResolvedValue(p, data), data)

\* a plausible slip: a failed fetch also forgets the value last resolved
FetchFailedClearsValue(p) ==
  [p EXCEPT !.game_state = "unknown", !.prop_status = "unavailable",
            !.current_value = Null, !.current_value_str = Null]

\* a plausible slip: a failed fetch leaves the wager pending
FetchFailedPending(p) == [p EXCEPT !.game_state = "unknown", !.prop_status = "pending"]

\* the wager after a failed fetch of its game (lines 108-113)
FetchFailed(p) == [p EXCEPT !.game_state = "unknown", !.prop_status = "unavailable"]

\* the lookup of a wager raises: find_player fetches the game again and that
\* fetch fails; nothing catches it inside refresh_props
Raises(p, data, finder_fails) ==
  /\ finder_fails
  /\ p.market_type \notin TeamMarkets
  /\ NeedsFinder(data, p.player_name, p.market_type)

\* the indices of the wagers in the order refresh_props visits them: by_game
\* is keyed in order of first appearance, each game keeps list order
RefreshOrder(ps) ==
  LET idx == [i \in 1..Len(ps) |-> i]
      firsts == SelectSeq(idx, LAMBDA i : \A j \in 1..(i - 1) : ps[j].game_id # ps[i].game_id)
  IN  Flatten([k \in DOMAIN firsts |->
        SelectSeq(idx, LAMBDA i : ps[i].game_id = ps[firsts[k]].game_id)])

\* a plausible slip: the failed fetch is not caught and ends the call
FailedVisitAborts(acc, i) == [acc EXCEPT !.raised = TRUE]

\* the except branch reaches the wager at index i (lines 108-113): it is
\* marked and the loop goes on to the next game
FailedVisit(acc, i) ==
  [acc EXCEPT !.props[i] = FetchFailed(acc.props[i]),
              !.last[acc.props[i].id] = [outcome |-> "failed", value |-> Null,
                                         prev_status |-> acc.props[i].prop_status]]

\* the loop of refresh_props over the wagers still to visit.  acc holds the
\* wagers, what the call resolved for each id, and whether the call has raised
RECURSIVE RefreshLoop(_, _, _, _, _)
RefreshLoop(acc, order, payloads, down, finder_down) ==
  LET
      \* the calls of fetch_nfl_game_player_stats the lookup of a wager makes when
      \* the provider answers: find_player fetches the game again (base_fetcher.py
      \* line 612)
      LookupCalls(p, data) ==
        IF p.market_type \notin TeamMarkets /\ NeedsFinder(data, p.player_name, p.market_type)
          THEN <<"ok">> ELSE <<>>
      \* the loop over by_game reaches game g: its snapshot is fetched (lines
      \* 99-107), and the fetch fails or answers
      GameEntered(g, fails) == [acc EXCEPT !.calls[g] = <<IF fails THEN "failed" ELSE "ok">>]
  IN
  IF order = <<>> \/ acc.raised THEN acc
  ELSE IF acc.calls[acc.props[Head(order)].game_id] = <<>>
    THEN RefreshLoop(GameEntered(acc.props[Head(order)].game_id,
                                 acc.props[Head(order)].game_id \in down),
                     order, payloads, down, finder_down)
  ELSE
    LET i == Head(order)
        p == acc.props[i]
        g == p.game_id
    IN  IF g \in down
          THEN RefreshLoop(FailedVisit(acc, i), Tail(order), payloads, down, finder_down)
        ELSE IF Raises(p, payloads[g], g \in finder_down)
          THEN [acc EXCEPT !.raised = TRUE, !.calls[g] = Append(@, "failed")]
        ELSE RefreshLoop([acc EXCEPT !.props[i] = RefreshOne(p, payloads[g]),
                                     !.last[p.id] = [outcome |-> "ok",
                                                     value |-> ResolvedValue(p, payloads[g]),
                                                     prev_status |-> p.prop_status],
                                     !.calls[g] = @ \o LookupCalls(p, payloads[g])],
                         Tail(order), payloads, down, finder_down)

\* the games refresh_props fetches: the keys of by_game
FetchedGames(ps) == {ps[i].game_id : i \in DOMAIN ps}

\* the games for which some lookup of refresh_props calls find_player
FinderGames(ps, payloads) ==
  {ps[i].game_id : i \in {k \in DOMAIN ps : Raises(ps[k], payloads[ps[k].game_id], TRUE)}}

\* the entry of a sub-subject from the result of its lookup (lines 120-140)
PlayerEntry(player, data, result) ==
  [player_name |-> IF result # Null /\ Get(result).player # Empty
                     THEN Get(result).player ELSE player.player_name,
   team_name |-> player.team_name,
   current_value |-> Some(IF result = Null THEN 0 ELSE Get(result).value),
   game_state |-> Some(data.game_state)]

\* the value and the name one sub-subject contributes (lines 97-140): 0.0 and
\* the given name when the lookup finds nothing or raises
CombinedPlayer(player, data, market_type, finder_fails) ==
  PlayerEntry(player, data,
              IF finder_fails /\ NeedsFinder(data, player.player_name, market_type)
                THEN Null
                ELSE GetNflPlayerStat(data, player.player_name, market_type))

\* sum of a sequence of optional numbers that are all present
RECURSIVE SumValues(_)
SumValues(players) ==
  IF players = <<>> THEN 0 ELSE Get(Head(players).current_value) + SumValues(Tail(players))

\* a plausible slip: a combined wager keeps a live status when the game is over
CombinedStatusNoFinal(side, line, total_value, game_state) ==
  LET is_hit == IF side = <<"over">> THEN total_value > line ELSE total_value < line
  IN  IF game_state \in {"in", "post", "final"} THEN (IF is_hit THEN "live_hit" ELSE "live_miss")
      ELSE "pending"

\* the status of a combined wager (lines 144-152)
CombinedStatus(side, line, total_value, game_state) ==
  LET is_hit == IF side = <<"over">> THEN total_value > line ELSE total_value < line
  IN  IF IsFinal(game_state) THEN (IF is_hit THEN "won" ELSE "lost")
      ELSE IF game_state = "in" THEN (IF is_hit THEN "live_hit" ELSE "live_miss")
      ELSE "pending"

\* the leg with its derived fields written from the refreshed sub-subjects
\* and their sum (lines 142-174)
LegWritten(leg, data, updated, total_value) ==
  [leg EXCEPT
     !.current_value = Some(total_value),
     !.current_value_str =
        Some(<<"tds", total_value, [k \in DOMAIN updated |-> updated[k].current_value]>>),
     !.game_state = Some(data.game_state),
     !.game_status_text = Some(data.status_detail),
     !.prop_status = Some(CombinedStatus(Lower(leg.side), leg.line, total_value,
                                         data.game_state)),
     !.combined_players = updated]

\* a plausible slip: the total is assigned, not accumulated, and ends as the
\* value of the last sub-subject
LegSummedLast(leg, data, updated) ==
  LegWritten(leg, data, updated,
             IF updated = <<>> THEN 0 ELSE Get(updated[Len(updated)].current_value))

\* the leg once every named sub-subject was refreshed
LegSummed(leg, data, updated) == LegWritten(leg, data, updated, SumValues(updated))

\* the sub-subjects that have a name (line 98)
Named(players) == SelectSeq(players, LAMBDA pl : pl.player_name # Empty)

\* the provider calls find_player makes for the named sub-subjects, one per
\* lookup that calls it
RECURSIVE FinderLookups(_, _, _, _)
FinderLookups(named, data, market_type, finder_fails) ==
  IF named = <<>> THEN <<>>
  ELSE (IF NeedsFinder(data, Head(named).player_name, market_type)
          THEN <<IF finder_fails THEN "failed" ELSE "ok">> ELSE <<>>)
       \o FinderLookups(Tail(named), data, market_type, finder_fails)

\* _refresh_combined_prop(leg, sport, fetcher) when the fetch succeeded
RefreshCombinedLeg(leg, data, finder_fails) ==
  LET
      \* the refreshed entries of the named sub-subjects
      UpdatedPlayers(named, market_type) ==
        [k \in DOMAIN named |-> CombinedPlayer(named[k], data, market_type, finder_fails)]
  IN
  LegSummed(leg, data,
            UpdatedPlayers(Named(leg.combined_players), leg.market_type))

\* ------------------------------------------------- the provider's payloads
Games == {"g1", "g2"}

Lines == (-MaxLine)..MaxLine

Scores == 0..MaxScore

\* one entry of header.competitions[0].competitors; linescores holds the
\* value of each period played
Competitor(homeAway, score, displayName, linescores) ==
  [homeAway |-> homeAway, score |-> score, displayName |-> displayName,
   linescores |-> linescores]

\* the period scores of the two teams by phase: nothing before kick-off, one
\* period while the game runs, two once it is over
HomePeriods(phase, hs) ==
  IF phase = "pre" THEN <<>> ELSE IF phase = "in" THEN <<hs>> ELSE <<0, hs>>

AwayPeriods(phase, as) ==
  IF phase = "pre" THEN <<>> ELSE IF phase = "in" THEN <<as>> ELSE <<as, 0>>

\* the shapes of the competitors list: home first, away first
Headers(phase, hs, as) ==
  {<<Competitor("home", <<"num", hs>>, BuffaloBills, HomePeriods(phase, hs)),
     Competitor("away", <<"num", as>>, KansasCityChiefs, AwayPeriods(phase, as))>>,
   <<Competitor("away", <<"num", as>>, KansasCityChiefs, AwayPeriods(phase, as)),
     Competitor("home", <<"num", hs>>, BuffaloBills, HomePeriods(phase, hs))>>}

\* a statistics category of the boxscore listing the given athletes
Category(name, keys, athletes) ==
  LET
      \* the stats row of an athlete in the rushing and receiving categories:
      \* yards and touchdowns
      StatRow(displayName) ==
        IF displayName = JoshAllen THEN <<<<"num", 1>>, <<"num", 1>>>>
        ELSE IF displayName = KeenanAllen THEN <<<<"num", 2>>, <<"num", 0>>>>
        ELSE <<<<"bad">>, <<"num", 0>>>>
  IN
  [name |-> name, keys |-> keys, labels |-> <<"YDS", "TD">>,
   athletes |-> [i \in DOMAIN athletes |->
                   [displayName |-> athletes[i], stats |-> StatRow(athletes[i])]]]

\* the athlete lists a category may carry
AthleteLists ==
  {<<>>, <<JoshAllen>>, <<KeenanAllen>>, <<JoshAllen, KeenanAllen>>, <<KeenanAllen, JoshAllen>>}

\* the payload fetch_nfl_game_player_stats returns
Payload(phase, competitors, rushers, receivers) ==
  LET
      \* the period lists of the entries at h and a, empty where the index is 0
      LineScoresAt(h, a) ==
        [home |-> IF h = 0 THEN <<>> ELSE competitors[h].linescores,
         away |-> IF a = 0 THEN <<>> ELSE competitors[a].linescores]
      \* _linescores as _fetch_game_summary attaches it (base_fetcher.py lines
      \* 520-550): the periods of the last home and of the last non-home
      \* competitor; without competitors the key is absent and refresh_props reads
      \* two empty lists
      LineScores ==
        LineScoresAt(LastHome(competitors), LastAway(competitors))
      \* the scoring plays of a game that has started: a field goal, then a
      \* touchdown run by Josh Allen
      ScoringPlays ==
        IF phase = "pre" THEN <<>>
        ELSE <<[is_td |-> FALSE, text |-> <<"Field", "Goal">>],
               [is_td |-> TRUE, text |-> <<"Josh", "Allen", "Run">>]>>
      \* boxscore.players: one team block with a rushing and a receiving category
      Boxscore ==
        <<[team |-> BuffaloBills,
           statistics |-> <<Category("rushing", <<"rushingYards", "rushingTouchdowns">>, rushers),
                            Category("receiving", <<"receivingYards", "receivingTouchdowns">>,
                                     receivers)>>]>>
  IN
  [game_state |-> phase,
   status_detail |-> <<"detail", phase>>,
   competitors |-> competitors,
   linescores |-> LineScores,
   players |-> Boxscore,
   rosters |-> <<[team |-> KansasCityChiefs, athletes |-> <<TravisKelce>>]>>,
   scoringPlays |-> ScoringPlays]

\* the competitors list with the home team first, with the away team first
HomeFirst(phase, hs, as) == CHOOSE c \in Headers(phase, hs, as) : c[1].homeAway = "home"

\* what the provider holds for a game: the phase, the shape of the header
\* (home first, away first, no competitors), the two scores and the athletes
\* of the two boxscore categories
Situation(phase, header, hs, as, rushers, receivers) ==
  [phase |-> phase, header |-> header, hs |-> hs, as |-> as,
   rushers |-> rushers, receivers |-> receivers]

\* the payload the fetch returns while the provider holds the situation
PayloadOf(sit) ==
  LET
      AwayFirst(phase, hs, as) == CHOOSE c \in Headers(phase, hs, as) : c[1].homeAway = "away"
  IN
  Payload(sit.phase,
          IF sit.header = "home_first" THEN HomeFirst(sit.phase, sit.hs, sit.as)
          ELSE IF sit.header = "away_first" THEN AwayFirst(sit.phase, sit.hs, sit.as)
          ELSE <<>>,
          sit.rushers, sit.receivers)

\* situations that vary the boxscore, with a fixed score
BoxSituations ==
  {Situation(ph, "home_first", 1, 0, ru, re) :
     ph \in Phases, ru \in AthleteLists, re \in AthleteLists}

\* a game before kick-off: no athlete has a row yet
PreGame == Situation("pre", "home_first", 0, 0, <<>>, <<>>)

\* a game that has started, in the running scenario
Started(phase, hs, as) ==
  Situation(phase, "home_first", hs, as, <<JoshAllen>>, <<KeenanAllen>>)

\* what the provider may hold for a game in the running scenario; the second
\* game has not started and stays so
DynSituations(g) ==
  IF g = "g1"
    THEN {PreGame, Started("in", 1, 0), Started("post", 1, 1)}
    ELSE {PreGame}

\* ------------------------------------------------------------------- state
VARIABLES
  props,        \* PropsDashboard.props: the wagers of the dashboard, in order
  id_counter,   \* the next value of the module-level _id_counter
  snap,         \* the situation the provider holds for each game
  combined,     \* the stored combined wagers with the leg each last refresh returned
  last,         \* per wager id: outcome of its last refresh, the value it resolved and
                \* the status the wager had before it
  raised,       \* the last refresh_props call ended with an exception
  calls,        \* per game: the calls of fetch_nfl_game_player_stats the last
                \* refresh operation made, in order, each with how it ended
  eng,          \* one application of _compute_prop_status: inputs and result
  req,          \* one request to the refresh-parlay-legs endpoint: the stored bets
                \* it reads, how the provider answers, the response
  res,          \* one call of a player-stat resolver: inputs and result
  boards,       \* the wagers of each of the dashboards of the process, in order
  removed       \* the ids remove_prop_by_id has taken out of a dashboard

vars == <<props, id_counter, snap, combined, last, raised, calls, eng, req, res, boards,
          removed>>

\* the state kept apart from the one dashboard and its provider
apart == <<req, res, boards, removed>>

\* PlayerProp(...) as add_prop builds it (lines 63-75), derived fields at
\* their dataclass defaults
NewProp(id, game_id, player_name, team_name, market_type, line, side) ==
  [id |-> id, sport |-> DashSport, game_id |-> game_id, game_label |-> Empty,
   player_name |-> player_name, team_name |-> team_name, market_type |-> market_type,
   line |-> line, side |-> Lower(side), stake |-> Null, odds |-> Null,
   current_value |-> Null, current_value_str |-> Null, game_state |-> "pre",
   game_status_text |-> Empty, prop_status |-> "pending"]

\* a stored combined wager before any refresh: the leg_data of refresh_props
\* (bets.py lines 263-269) with no derived field yet
NewCombined(event_id, names, market_type, line, side) ==
  [event_id |-> event_id,
   combined_players |-> [k \in DOMAIN names |->
                           [player_name |-> names[k], team_name |-> Empty,
                            current_value |-> Null, game_state |-> Null]],
   market_type |-> market_type, line |-> line, side |-> side,
   current_value |-> Null, current_value_str |-> Null, game_state |-> Null,
   game_status_text |-> Null, prop_status |-> Null]

\* no refresh operation has called the provider
NoCalls == [g \in Games |-> <<>>]

\* the provider calls of one _refresh_combined_prop: the fetch at its head
\* (lines 76-85) and, when that answered, one per lookup that calls
\* find_player
CombinedCalls(leg, data, fetch_fails, finder_fails) ==
  [NoCalls EXCEPT ![leg.event_id] =
     IF fetch_fails THEN <<"failed">>
     ELSE <<"ok">> \o FinderLookups(Named(leg.combined_players), data, leg.market_type,
                                     finder_fails)]

\* no application of the engine under way
EngIdle == [phase |-> "idle"]

\* no request at an endpoint, no call of a resolver
ReqIdle == [phase |-> "idle"]

ResIdle == [phase |-> "idle"]

\* the dashboards a process holds next to each other
Boards == {"a", "b"}

\* nothing is going on apart from the one dashboard
ApartIdle ==
  /\ req = ReqIdle
  /\ res = ResIdle
  /\ boards = [d \in Boards |-> <<>>]
  /\ removed = {}

\* the entry of last for a wager that was never refreshed
NeverRefreshed == [outcome |-> "none", value |-> Null, prev_status |-> "pending"]

\* ------------------------------------------------------------- operations
\* PropsDashboard.add_prop
AddProp(game_id, player_name, team_name, market_type, line, side) ==
  /\ id_counter <= MaxId
  /\ props' = Append(props, NewProp(id_counter, game_id, player_name, team_name,
                                    market_type, line, side))
  /\ id_counter' = id_counter + 1
  /\ last' = [i \in DOMAIN last \cup {id_counter} |->
               IF i = id_counter THEN NeverRefreshed ELSE last[i]]
  /\ raised' = FALSE
  /\ calls' = NoCalls
  /\ UNCHANGED <<snap, combined, eng>>
  /\ UNCHANGED apart

\* PropsDashboard.remove_prop_by_id for an id the dashboard holds
RemoveProp(prop_id) ==
  /\ \E i \in DOMAIN props : props[i].id = prop_id
  /\ LET i == CHOOSE k \in DOMAIN props :
                 props[k].id = prop_id /\ \A j \in 1..(k - 1) : props[j].id # prop_id
     IN  props' = SubSeq(props, 1, i - 1) \o SubSeq(props, i + 1, Len(props))
  /\ last' = [i \in DOMAIN last \ {prop_id} |-> last[i]]
  /\ raised' = FALSE
  /\ calls' = NoCalls
  /\ UNCHANGED <<id_counter, snap, combined, eng>>
  /\ UNCHANGED apart

\* the provider's data for a game changes
ProviderUpdate(g, sit) ==
  /\ snap[g] # sit
  /\ snap' = [snap EXCEPT ![g] = sit]
  /\ raised' = FALSE
  /\ calls' = NoCalls
  /\ UNCHANGED <<props, id_counter, combined, last, eng>>
  /\ UNCHANGED apart

\* what fetch_nfl_game_player_stats returns for each game right now
Fetch == [g \in Games |-> PayloadOf(snap[g])]

\* PropsDashboard.refresh_props; the fetch of the games in down raises, and
\* so does the fetch find_player makes for the games in finder_down
RefreshProps(down, finder_down) ==
  LET
      \* the dashboard takes the outcome of the loop
      Install(result) ==
        /\ props' = result.props
        /\ last' = result.last
        /\ raised' = result.raised
        /\ calls' = result.calls
  IN
  /\ props # <<>>
  /\ Install(RefreshLoop([props |-> props, last |-> last, raised |-> FALSE, calls |-> NoCalls],
                         RefreshOrder(props), Fetch, down, finder_down))
  /\ UNCHANGED <<id_counter, snap, combined, eng>>
  /\ UNCHANGED apart

\* _refresh_combined_prop on a stored combined wager: on a failed fetch the
\* leg comes back as it went in (lines 76-85)
RefreshCombined(i, fetch_fails, finder_fails) ==
  /\ i \in DOMAIN combined
  /\ combined' = [combined EXCEPT ![i] =
                    IF fetch_fails THEN combined[i]
                    ELSE RefreshCombinedLeg(combined[i], Fetch[combined[i].event_id],
                                            finder_fails)]
  /\ raised' = FALSE
  /\ calls' = CombinedCalls(combined[i], Fetch[combined[i].event_id], fetch_fails,
                            finder_fails)
  /\ UNCHANGED <<props, id_counter, snap, last, eng>>
  /\ UNCHANGED apart

\* one call of _compute_prop_status on the inputs drawn at the start, in the
\* backend and in the command line dashboard
Compute ==
  /\ eng.phase = "input"
  /\ eng' = [eng EXCEPT !.phase = "done",
                        !.status = ComputePropStatus(eng.prop, eng.current_value,
                                                     eng.game_state),
                        !.cli_status = CliComputePropStatus(eng.prop.line, eng.prop.side,
                                                            eng.current_value,
                                                            eng.game_state)]
  /\ UNCHANGED <<props, id_counter, snap, combined, last, raised, calls>>
  /\ UNCHANGED apart

\* ------------------------------------------------------- the input spaces
\* sides of a total, team total or player wager, as callers pass them
OverUnder == {<<"over">>, <<"Under">>}

\* the player markets looked at: base, derived, event based, and one unknown
PlayerMarkets ==
  {"rushing_yards", "receiving_yards", "rushing_touchdowns", "rushing_receiving_yards",
   "passing_rushing_yards", "anytime_touchdowns", "first_touchdown", "last_touchdown",
   "no_such_market"}

\* the player names wagers are placed on: a name shared by two athletes, a
\* full name, a player known from the roster only, a player nobody knows
PlayerQueries == {<<"Allen">>, <<"keenan", "allen">>, <<"Kelce">>, <<"Mahomes">>}

\* the wagers placed in the running scenario: a total and a player market
\* that needs the roster lookup on g1, a team total on g2
DynWagers ==
  {NewProp(0, "g1", Empty, Empty, "total_score", 2, <<"over">>),
   NewProp(0, "g1", <<"Kelce">>, Empty, "anytime_touchdowns", 1, <<"under">>),
   NewProp(0, "g2", Empty, Empty, "home_team_points", 1, <<"under">>)}

\* ---------------------------------------------------------- specifications
\* the state of a process that has built its dashboard and placed nothing
Init ==
  /\ props = <<>>
  /\ id_counter = 1
  /\ snap = [g \in Games |-> PreGame]
  /\ combined = <<>>
  /\ last = <<>>
  /\ raised = FALSE
  /\ calls = NoCalls
  /\ eng = EngIdle
  /\ ApartIdle

\* the running scenario: wagers come and go, the provider moves, refreshes run
Next ==
  \/ \E w \in DynWagers :
       AddProp(w.game_id, w.player_name, w.team_name, w.market_type, w.line, w.side)
  \/ \E prop_id \in 1..MaxId : RemoveProp(prop_id)
  \/ \E g \in Games : \E sit \in DynSituations(g) : ProviderUpdate(g, sit)
  \/ \E down \in SUBSET FetchedGames(props) :
       \E finder_down \in SUBSET (FinderGames(props, Fetch) \ down) :
         RefreshProps(down, finder_down)

Spec == Init /\ [][Next]_vars

\* one wager of any kind in front of any payload of its game
InitOne ==
  LET
      \* the combined wagers looked at
      CombinedLegs ==
        {NewCombined("g1", names, m, line, side) :
           names \in {<<<<"Allen">>, <<"Kelce">>>>, <<<<"keenan", "allen">>, Empty, <<"Allen">>>>},
           m \in {"anytime_touchdowns", "rushing_yards"},
           line \in 0..MaxLine, side \in OverUnder}
      \* situations that vary the scores and the header, with a fixed boxscore
      ScoreSituations ==
        {Situation(ph, h, hs, as, <<JoshAllen>>, <<KeenanAllen>>) :
           ph \in Phases, h \in {"home_first", "away_first"}, hs \in Scores, as \in Scores}
        \cup {Situation(ph, "none", 0, 0, <<JoshAllen>>, <<KeenanAllen>>) : ph \in Phases}
      \* sides of a moneyline or spread wager: the picked team, or the side the
      \* endpoints fill in when the stored bet has none (bets.py line 232)
      TeamSides == {<<"Bills">>, <<"chiefs">>, <<"over">>}
  IN
  /\ id_counter = 2
  /\ raised = FALSE
  /\ calls = NoCalls
  /\ eng = EngIdle
  /\ ApartIdle
  /\ \/ /\ \E m \in TeamMarkets : \E line \in Lines :
             \E side \in (IF HasMoneyline(m) \/ HasSpread(m) THEN TeamSides ELSE OverUnder) :
               props = <<NewProp(1, "g1", Empty, Empty, m, line, side)>>
        /\ \E sit \in ScoreSituations : snap = [g \in Games |-> sit]
        /\ combined = <<>>
        /\ last = <<NeverRefreshed>>
     \/ /\ \E m \in PlayerMarkets : \E line \in 0..MaxLine : \E side \in OverUnder :
             \E name \in PlayerQueries :
               props = <<NewProp(1, "g1", name, Empty, m, line, side)>>
        /\ \E sit \in BoxSituations : snap = [g \in Games |-> sit]
        /\ combined = <<>>
        /\ last = <<NeverRefreshed>>
     \/ /\ props = <<>>
        /\ \E sit \in BoxSituations : snap = [g \in Games |-> sit]
        /\ \E leg \in CombinedLegs : combined = <<leg>>
        /\ last = <<>>

\* refreshes of that one wager, the provider standing still and answering
\* the fetch of refresh_props
NextOne ==
  \/ \E finder_down \in SUBSET FinderGames(props, Fetch) : RefreshProps({}, finder_down)
  \/ \E fetch_fails \in BOOLEAN : \E finder_fails \in BOOLEAN :
       /\ fetch_fails => ~finder_fails
       /\ RefreshCombined(1, fetch_fails, finder_fails)

SpecOne == InitOne /\ [][NextOne]_vars

InitEngine ==
  LET
      EngineValues == {Null} \cup {Some(v) : v \in (-MaxVal)..MaxVal}
      EngineSides == {<<"over">>, <<"under">>, <<"Over">>, <<"bills">>}
      \* the inputs of one call of the valuation engine
      EngineMarkets == TeamMarkets \cup {"rushing_yards", "anytime_touchdowns"}
  IN
  /\ props = <<>>
  /\ id_counter = 1
  /\ snap = [g \in Games |-> PreGame]
  /\ combined = <<>>
  /\ last = <<>>
  /\ raised = FALSE
  /\ calls = NoCalls
  /\ ApartIdle
  /\ \E m \in EngineMarkets : \E line \in Lines : \E side \in EngineSides :
       \E v \in EngineValues : \E gs \in Phases :
         eng = [phase |-> "input",
                prop |-> [market_type |-> m, line |-> line, side |-> side],
                current_value |-> v, game_state |-> gs, status |-> "none",
                cli_status |-> "none"]

SpecEngine == InitEngine /\ [][Compute]_vars


\* ------------------------------------------------------------------ claims
\* C2: when the resolved current value is null the valuation engine answers
\* unavailable if the game phase is post and pending for every other phase
\* (pre, in, unknown), for every wager kind, whatever the line and the side.
C2_NullValueStatus ==
  (eng.phase = "done" /\ eng.current_value = Null)
    => eng.status = (IF eng.game_state = "post" THEN "unavailable" ELSE "pending")

\* a spread wager with a line, no value and a finished game was valued
\* unavailable
C2_Witness ==
  /\ eng.phase = "done"
  /\ eng.current_value = Null
  /\ eng.game_state = "post"
  /\ eng.prop.market_type = "1h_spread"
  /\ eng.prop.line = -MaxLine
  /\ eng.status = "unavailable"

\* C3: for a total_score or team-total wager whose total differs from the
\* line, at phase pre or in: over with total > line is won, over with total <
\* line is live_miss, under with total > line is lost, under with total < line
\* is live_hit.
C3_LiveTotalAsymmetry ==
  (/\ eng.phase = "done"
   /\ HasTotalScore(eng.prop.market_type) \/ IsTeamTotal(eng.prop.market_type)
   /\ eng.current_value # Null
   /\ eng.game_state \in {"pre", "in"}
   /\ Lower(eng.prop.side) \in {<<"over">>, <<"under">>})
    => LET total == Get(eng.current_value)
           line == eng.prop.line
           over == Lower(eng.prop.side) = <<"over">>
       IN  /\ (over /\ total > line) => eng.status = "won"
           /\ (over /\ total < line) => eng.status = "live_miss"
           /\ (~over /\ total > line) => eng.status = "lost"
           /\ (~over /\ total < line) => eng.status = "live_hit"

\* an under on a team total was valued lost while the game was running,
\* because the total had passed the line
C3_Witness ==
  /\ eng.phase = "done"
  /\ eng.prop.market_type = "away_team_points"
  /\ eng.prop.side = <<"under">>
  /\ eng.game_state = "in"
  /\ eng.current_value # Null
  /\ Get(eng.current_value) > eng.prop.line
  /\ eng.status = "lost"

\* C4: for a total_score wager whose resolved total equals the line the
\* status is push at phase post and live_push while the game is live, for over
\* and under alike, for half-point and whole-number lines.
C4_TotalPush ==
  (/\ eng.phase = "done"
   /\ HasTotalScore(eng.prop.market_type)
   /\ eng.current_value = Some(eng.prop.line)
   /\ Lower(eng.prop.side) \in {<<"over">>, <<"under">>})
    => /\ eng.game_state = "post" => eng.status = "push"
       /\ eng.game_state \in {"pre", "in"} => eng.status = "live_push"

\* an under on a half-point line (an odd number of half points) met its line
\* exactly while the game was running and was valued live_push
C4_Witness ==
  /\ eng.phase = "done"
  /\ eng.prop.market_type = "total_score"
  /\ eng.prop.side = <<"under">>
  /\ eng.prop.line % 2 = 1
  /\ eng.current_value = Some(eng.prop.line)
  /\ eng.game_state = "in"
  /\ eng.status = "live_push"


\* C6: for a moneyline wager the status depends only on the signed score
\* differential d handed to the engine and on the phase: d > 0 is won at post
\* and live_hit before, anything else (a tie included) is lost at post and
\* live_miss before; the stored line plays no part and no push is reported.
C6_MoneylineByDifferential ==
  (/\ eng.phase = "done"
   /\ HasMoneyline(eng.prop.market_type)
   /\ eng.current_value # Null)
    => LET d == Get(eng.current_value)
       IN  /\ eng.status \notin {"push", "live_push"}
           /\ eng.game_state = "post"
                => eng.status = (IF d > 0 THEN "won" ELSE "lost")
           /\ eng.game_state \in {"pre", "in"}
                => eng.status = (IF d > 0 THEN "live_hit" ELSE "live_miss")

\* a moneyline wager that carries a line was valued lost on a tie at the end
\* of the game
C6_Witness ==
  /\ eng.phase = "done"
  /\ eng.prop.market_type = "moneyline"
  /\ eng.prop.line = 0 - MaxLine
  /\ eng.current_value = Some(0)
  /\ eng.game_state = "post"
  /\ eng.status = "lost"

\* C7: for a player-stat wager with a current value v different from the
\* line: at phase pre or in the status is live_hit if (over and v > line) or
\* (under and v < line), else live_miss; at phase post it is won under that
\* same condition, else lost.
C7_PlayerStatStatus ==
  (/\ eng.phase = "done"
   /\ eng.prop.market_type \notin TeamMarkets
   /\ eng.current_value # Null
   /\ Get(eng.current_value) # eng.prop.line
   /\ Lower(eng.prop.side) \in {<<"over">>, <<"under">>})
    => LET v == Get(eng.current_value)
           winning == \/ Lower(eng.prop.side) = <<"over">> /\ v > eng.prop.line
                      \/ Lower(eng.prop.side) = <<"under">> /\ v < eng.prop.line
       IN  /\ eng.game_state \in {"pre", "in"}
                => eng.status = (IF winning THEN "live_hit" ELSE "live_miss")
           /\ eng.game_state = "post"
                => eng.status = (IF winning THEN "won" ELSE "lost")

\* an under on rushing yards was valued live_hit during the game with the
\* value below the line
C7_Witness ==
  /\ eng.phase = "done"
  /\ eng.prop.market_type = "rushing_yards"
  /\ eng.prop.side = <<"under">>
  /\ eng.current_value # Null
  /\ Get(eng.current_value) < eng.prop.line
  /\ eng.game_state = "in"
  /\ eng.status = "live_hit"

\* C8 as claimed: for every wager kind with a line and an over/under side,
\* player-stat wagers included, a current value equal to the line gives push
\* at phase post and live_push at phase pre or in, for both sides.
C8_PushEveryKind ==
  (/\ eng.phase = "done"
   /\ ~HasMoneyline(eng.prop.market_type) /\ ~HasSpread(eng.prop.market_type)
   /\ eng.current_value = Some(eng.prop.line)
   /\ Lower(eng.prop.side) \in {<<"over">>, <<"under">>})
    => /\ eng.game_state = "post" => eng.status = "push"
       /\ eng.game_state \in {"pre", "in"} => eng.status = "live_push"

\* C8 as the code has it: a current value equal to the line gives push at
\* phase post for every kind with a line and an over/under side; at phase pre
\* or in it gives live_push for a total or team total and live_miss for a
\* player-stat wager, for both sides.  The command line dashboard values
\* every wager by the player-stat rule.
C8_PushByKind ==
  (/\ eng.phase = "done"
   /\ ~HasMoneyline(eng.prop.market_type) /\ ~HasSpread(eng.prop.market_type)
   /\ eng.current_value = Some(eng.prop.line)
   /\ Lower(eng.prop.side) \in {<<"over">>, <<"under">>})
    => /\ eng.game_state = "post" => (eng.status = "push" /\ eng.cli_status = "push")
       /\ eng.game_state \in {"pre", "in"}
            => /\ eng.status = (IF eng.prop.market_type \in TeamMarkets
                                  THEN "live_push" ELSE "live_miss")
               /\ eng.cli_status = "live_miss"

\* an over on rushing yards sat exactly on its line during the game and was
\* valued live_miss
C8_Witness ==
  /\ eng.phase = "done"
  /\ eng.prop.market_type = "rushing_yards"
  /\ eng.prop.side = <<"over">>
  /\ eng.current_value = Some(eng.prop.line)
  /\ eng.game_state = "in"
  /\ eng.status = "live_miss"


\* C1: after a refresh that fetched a snapshot whose phase is post, every
\* wager of that game (player stat, total, team total, spread, moneyline,
\* period-scoped, combined) has a status in {won, lost, push, unavailable},
\* never pending, live_hit, live_miss or live_push.
C1_PostIsTerminal ==
  /\ \A i \in DOMAIN props :
       (last[props[i].id].outcome = "ok" /\ IsFinal(snap[props[i].game_id].phase))
         => props[i].prop_status \in TerminalStatuses
  /\ \A k \in DOMAIN combined :
       (combined[k].game_state # Null /\ IsFinal(snap[combined[k].event_id].phase))
         => /\ combined[k].prop_status # Null
            /\ Get(combined[k].prop_status) \in TerminalStatuses

\* a combined wager was refreshed against a finished game and came out lost
C1_Witness ==
  /\ combined # <<>>
  /\ snap[combined[1].event_id].phase = "post"
  /\ combined[1].game_state = Some("post")
  /\ combined[1].prop_status = Some("lost")

\* C5: for a spread wager (full game, 1h_ or 1q_), with d the selected team's
\* score minus the opponent's over the wager's period and m = d + line: m = 0
\* gives push at post and live_push otherwise, m > 0 gives won at post and
\* live_hit otherwise, m < 0 gives lost at post and live_miss otherwise.
C5_SpreadMargin ==
  \A i \in DOMAIN props :
    (/\ last[props[i].id].outcome = "ok"
     /\ HasSpread(props[i].market_type)
     /\ snap[props[i].game_id].header # "none"
     /\ props[i].side \in {<<"bills">>, <<"chiefs">>})
      => LET sit == snap[props[i].game_id]
             hp == HomePeriods(sit.phase, sit.hs)
             ap == AwayPeriods(sit.phase, sit.as)
             Through(periods, n) ==
               (IF Len(periods) >= 1 THEN periods[1] ELSE 0)
               + (IF n = 2 /\ Len(periods) >= 2 THEN periods[2] ELSE 0)
             home == IF StartsWith1q(props[i].market_type) THEN Through(hp, 1)
                     ELSE IF StartsWith1h(props[i].market_type) THEN Through(hp, 2)
                     ELSE sit.hs
             away == IF StartsWith1q(props[i].market_type) THEN Through(ap, 1)
                     ELSE IF StartsWith1h(props[i].market_type) THEN Through(ap, 2)
                     ELSE sit.as
             d == IF props[i].side = <<"bills">> THEN 2 * (home - away)
                                                  ELSE 2 * (away - home)
             m == d + props[i].line
             post == sit.phase = "post"
         IN  props[i].prop_status =
               (IF m = 0 THEN (IF post THEN "push" ELSE "live_push")
                ELSE IF m > 0 THEN (IF post THEN "won" ELSE "live_hit")
                ELSE (IF post THEN "lost" ELSE "live_miss"))

\* a first-half spread on the away team, listed first in the header, ended
\* one point behind with a line of plus one point: push
C5_Witness ==
  /\ props # <<>>
  /\ last[props[1].id].outcome = "ok"
  /\ props[1].market_type = "1h_spread"
  /\ props[1].side = <<"chiefs">>
  /\ props[1].line = 2
  /\ snap["g1"] = Situation("post", "away_first", 2, 1, <<JoshAllen>>, <<KeenanAllen>>)
  /\ props[1].prop_status = "push"

\* C9: refresh_props called again while the provider returns the same
\* snapshot leaves every wager with the prop_status and the current_value the
\* call before gave it, derived statistics and player names that are
\* substrings of several players included.
C9_RefreshIdempotent ==
  [][\A i \in DOMAIN props :
       (/\ snap' = snap
        /\ i \in DOMAIN props'
        /\ props'[i].id = props[i].id
        /\ last[props[i].id].outcome = "ok"
        /\ last'[props[i].id].outcome = "ok")
         => /\ props'[i].prop_status = props[i].prop_status
            /\ props'[i].current_value = props[i].current_value]_vars


\* C10: the status a successful refresh writes is a function of the resolved
\* current value, the snapshot's phase and the wager's kind, line and side
\* only: two wagers that agree on those carry the same status, whatever
\* prop_status, current_value and game_state each had before its refresh.
C10_StatusFromInputsOnly ==
  \A i \in DOMAIN props : \A j \in DOMAIN props :
    (/\ last[props[i].id].outcome = "ok"
     /\ last[props[j].id].outcome = "ok"
     /\ last[props[i].id].value = last[props[j].id].value
     /\ props[i].game_state = props[j].game_state
     /\ props[i].market_type = props[j].market_type
     /\ props[i].line = props[j].line
     /\ props[i].side = props[j].side)
      => props[i].prop_status = props[j].prop_status

\* two wagers with the same inputs were refreshed to the same status, one
\* coming from a live status and the other from pending
C10_Witness ==
  \E i \in DOMAIN props : \E j \in DOMAIN props :
    /\ i # j
    /\ last[props[i].id].outcome = "ok"
    /\ last[props[j].id].outcome = "ok"
    /\ last[props[i].id].value = last[props[j].id].value
    /\ last[props[i].id].value # Null
    /\ props[i].game_state = "post"
    /\ props[j].game_state = "post"
    /\ props[i].market_type = props[j].market_type
    /\ props[i].line = props[j].line
    /\ props[i].side = props[j].side
    /\ last[props[i].id].prev_status \in {"live_hit", "live_miss", "live_push"}
    /\ last[props[j].id].prev_status = "pending"
    /\ props[i].prop_status = props[j].prop_status


\* C11: won, lost, push and unavailable are terminal: once a wager's
\* prop_status is one of them after a refresh, no later refresh of the same
\* dashboard moves it to pending, live_hit, live_miss or live_push.
C11_TerminalAbsorbing ==
  [][\A i \in DOMAIN props :
       (/\ i \in DOMAIN props'
        /\ props'[i].id = props[i].id
        /\ last[props[i].id].outcome # "none"
        /\ props[i].prop_status \in TerminalStatuses)
         => props'[i].prop_status \in TerminalStatuses]_vars

\* C11 (amended): every refresh computes the status anew.  A wager whose
\* status is won, lost, push or unavailable keeps a status of that set across
\* a later refresh whose fetch for its game fails or returns a snapshot in
\* phase post; nothing more is kept.
C11_TerminalWhileOverOrFailed ==
  [][\A i \in DOMAIN props :
       (/\ i \in DOMAIN props'
        /\ props'[i].id = props[i].id
        /\ last[props[i].id].outcome # "none"
        /\ props[i].prop_status \in TerminalStatuses
        /\ \/ last'[props[i].id].outcome = "failed"
           \/ /\ last'[props[i].id].outcome = "ok"
              /\ IsFinal(snap'[props[i].game_id].phase))
         => props'[i].prop_status \in TerminalStatuses]_vars

\* a wager that was won, lost or push went through a refresh whose fetch
\* failed and is unavailable now; another that was unavailable was refreshed
\* against a finished game and is settled again
C11_Witness ==
  /\ \E i \in DOMAIN props :
       /\ last[props[i].id].outcome = "failed"
       /\ last[props[i].id].prev_status \in {"won", "lost", "push"}
       /\ props[i].prop_status = "unavailable"
  /\ \E j \in DOMAIN props :
       /\ last[props[j].id].outcome = "ok"
       /\ last[props[j].id].prev_status = "unavailable"
       /\ props[j].game_state = "post"
       /\ props[j].prop_status \in {"won", "lost", "push"}


\* C12: in one refresh_props call over wagers of two or more games in which
\* the snapshot fetch of one game fails, the call does not raise and every
\* wager of each other game is valuated from its own game's snapshot and ends
\* as it would have if the wagers of the failing game were not in the batch.
C12_PartitionIsolation ==
  [][\A g \in Games :
       (/\ props # <<>>
        /\ calls'[g] = <<"failed">>
        /\ \A h \in Games \ {g} : \A k \in DOMAIN calls'[h] : calls'[h][k] = "ok"
        /\ \E i \in DOMAIN props : props[i].game_id # g)
         => /\ ~raised'
            /\ LET others == SelectSeq(props, LAMBDA p : p.game_id # g)
                   alone == RefreshLoop([props |-> others, last |-> last, raised |-> FALSE,
                                         calls |-> NoCalls],
                                        RefreshOrder(others), Fetch, {}, {})
               IN  /\ ~alone.raised
                   /\ \A i \in DOMAIN props :
                        props[i].game_id # g
                          => /\ props'[i] = RefreshOne(props[i], Fetch[props[i].game_id])
                             /\ \E k \in DOMAIN others :
                                  /\ others[k].id = props[i].id
                                  /\ props'[i] = alone.props[k]]_vars

\* the fetch of the second game failed and its wager is unavailable, while
\* the wager of the first game was settled from the finished first game
C12_Witness ==
  /\ ~raised
  /\ calls = [g \in Games |-> IF g = "g2" THEN <<"failed">> ELSE <<"ok">>]
  /\ \E i \in DOMAIN props : \E j \in DOMAIN props :
       /\ props[i].game_id = "g2"
       /\ last[props[i].id].outcome = "failed"
       /\ props[i].prop_status = "unavailable"
       /\ props[j].game_id = "g1"
       /\ last[props[j].id].outcome = "ok"
       /\ props[j].game_state = "post"
       /\ props[j].prop_status \in {"won", "lost"}

\* C13: when the snapshot fetch of a game fails during refresh_props, every
\* wager of that game ends with game_state unknown and prop_status
\* unavailable, and its current_value, current_value_str and game_status_text
\* (and every other field) are what they were before the call.
C13_FailedFetchMarksAndKeeps ==
  [][\A i \in DOMAIN props :
       calls'[props[i].game_id] = <<"failed">>
         => /\ Len(props') = Len(props)
            /\ last'[props[i].id].outcome = "failed"
            /\ props'[i].game_state = "unknown"
            /\ props'[i].prop_status = "unavailable"
            /\ props'[i].current_value = props[i].current_value
            /\ props'[i].current_value_str = props[i].current_value_str
            /\ props'[i].game_status_text = props[i].game_status_text
            /\ props'[i] = [props[i] EXCEPT !.game_state = "unknown",
                                            !.prop_status = "unavailable"]]_vars

\* a wager that had a value, a display string and a status text from a
\* running game went through a failed fetch: it is unavailable in an unknown
\* phase and still shows them
C13_Witness ==
  \E i \in DOMAIN props :
    /\ calls[props[i].game_id] = <<"failed">>
    /\ last[props[i].id].outcome = "failed"
    /\ last[props[i].id].prev_status = "live_push"
    /\ props[i].game_state = "unknown"
    /\ props[i].prop_status = "unavailable"
    /\ props[i].current_value # Null
    /\ props[i].current_value_str # Null
    /\ props[i].game_status_text = <<"detail", "in">>

\* C14: when resolving the statistic of one wager fails with an error during
\* refresh_props (the player lookup of first_touchdown, last_touchdown or
\* anytime_touchdowns raises), the error does not leave refresh_props and
\* every other wager of the batch, of the same game and of other games, has
\* its derived fields written by that call.
C14_LookupFailureContained ==
  [][(props # <<>> /\ calls' # NoCalls)
       => /\ ~raised'
          /\ \A i \in DOMAIN props :
               (/\ calls'[props[i].game_id] # <<"failed">>
                /\ ~Raises(props[i], Fetch[props[i].game_id],
                           \E k \in DOMAIN calls'[props[i].game_id] :
                             calls'[props[i].game_id][k] = "failed"))
                 => /\ last'[props[i].id].outcome = "ok"
                    /\ props'[i] = RefreshOne(props[i], Fetch[props[i].game_id])]_vars

\* C15: during one refresh_props call the snapshot fetch is invoked exactly
\* once per distinct game_id among the dashboard's wagers, however many
\* wagers share the game and whatever their kinds; resolving a wager against
\* the fetched snapshot triggers no further fetch.
C15_OneFetchPerGame ==
  (props # <<>> /\ calls # NoCalls)
    => \A g \in Games :
         /\ Len(calls[g]) <= 1
         /\ ~raised => Len(calls[g]) = (IF g \in FetchedGames(props) THEN 1 ELSE 0)


C19_CombinedStatusIsEngineStatus ==
  \A k \in DOMAIN combined :
    combined[k].game_state # Null
      => Get(combined[k].prop_status) =
           ComputePropStatus([market_type |-> combined[k].market_type,
                              line |-> combined[k].line,
                              side |-> Lower(combined[k].side)],
                             combined[k].current_value, Get(combined[k].game_state))


\* C20: when the snapshot fetch fails while a combined wager is refreshed,
\* the failure is not raised to the caller and the status of the returned
\* wager is unavailable (or pending), never a status carried over from an
\* earlier refresh.
C20_CombinedFetchFailureDegrades ==
  [][\A k \in DOMAIN combined :
       calls'[combined[k].event_id] = <<"failed">>
         => /\ ~raised'
            /\ combined'[k].prop_status \in {Some("unavailable"), Some("pending")}]_vars


\* ------------------------------------------- several dashboards, one counter
\* a plausible slip: each dashboard numbers its own wagers
TakenIdPerBoard(d) == Len(boards[d]) + 1

\* next(_id_counter): the counter is a module-level object, shared by every
\* dashboard of the process
TakenId(d) == id_counter

\* PropsDashboard.add_prop on dashboard d
BoardAdd(d, w) ==
  /\ id_counter <= MaxId
  /\ boards' = [boards EXCEPT ![d] =
                  Append(@, NewProp(TakenId(d), w.game_id, w.player_name, w.team_name,
                                    w.market_type, w.line, w.side))]
  /\ id_counter' = id_counter + 1
  /\ UNCHANGED <<props, snap, combined, last, raised, calls, eng, req, res, removed>>

\* PropsDashboard.remove_prop_by_id on dashboard d, for an id it holds
BoardRemove(d, prop_id) ==
  LET
      \* the list without its first wager of the given id (lines 81-84)
      WithoutId(ps) ==
        LET i == CHOOSE k \in DOMAIN ps :
                   ps[k].id = prop_id /\ \A j \in 1..(k - 1) : ps[j].id # prop_id
        IN  SubSeq(ps, 1, i - 1) \o SubSeq(ps, i + 1, Len(ps))
  IN
  /\ \E i \in DOMAIN boards[d] : boards[d][i].id = prop_id
  /\ boards' = [boards EXCEPT ![d] = WithoutId(@)]
  /\ removed' = removed \cup {prop_id}
  /\ UNCHANGED <<props, id_counter, snap, combined, last, raised, calls, eng, req, res>>

\* the wagers placed on the dashboards
IdWagers ==
  DynWagers \cup {NewProp(0, "g2", Empty, Empty, "moneyline", 0, <<"Bills">>),
                  NewProp(0, "g1", <<"Allen">>, Empty, "rushing_yards", 2, <<"over">>)}

\* wagers come and go on the dashboards of one process
NextIds ==
  \/ \E d \in Boards : \E w \in IdWagers : BoardAdd(d, w)
  \/ \E d \in Boards : \E prop_id \in 1..MaxId : BoardRemove(d, prop_id)

SpecIds == Init /\ [][NextIds]_vars

\* C23: after any sequence of add_prop and remove_prop_by_id calls on the
\* dashboards of one process, the ids of the wagers held are pairwise
\* distinct, and no wager held carries an id that was removed before
C23_IdsDistinctNeverReused ==
  /\ \A d1 \in Boards : \A d2 \in Boards :
       \A i \in DOMAIN boards[d1] : \A j \in DOMAIN boards[d2] :
         (boards[d1][i].id = boards[d2][j].id) => (d1 = d2 /\ i = j)
  /\ \A d \in Boards : \A i \in DOMAIN boards[d] : boards[d][i].id \notin removed

\* C23 witness: the first wager was removed from its dashboard and the other
\* dashboard holds the wager placed next
C23_Witness ==
  /\ 1 \in removed
  /\ boards["a"] = <<>>
  /\ boards["b"] # <<>>
  /\ id_counter = 3


\* C24: for a moneyline or spread wager whose side is, letter case aside, a
\* substring of exactly one of the snapshot's home and away team display
\* names, the value resolved is the score differential from that team's
\* perspective: home minus away when it names the home team, away minus home
\* when it names the away team.
C24_PerspectiveOfNamedTeam ==
  \A i \in DOMAIN props :
    LET sit == snap[props[i].game_id]
        home_name == IF sit.header = "none" THEN Empty ELSE BuffaloBills
        away_name == IF sit.header = "none" THEN Empty ELSE KansasCityChiefs
        in_home == Contains(Lower(props[i].side), Lower(home_name))
        in_away == Contains(Lower(props[i].side), Lower(away_name))
        hp == HomePeriods(sit.phase, sit.hs)
        ap == AwayPeriods(sit.phase, sit.as)
        Through(periods, n) ==
          (IF Len(periods) >= 1 THEN periods[1] ELSE 0)
          + (IF n = 2 /\ Len(periods) >= 2 THEN periods[2] ELSE 0)
        home == IF StartsWith1q(props[i].market_type) THEN Through(hp, 1)
                ELSE IF StartsWith1h(props[i].market_type) THEN Through(hp, 2)
                ELSE sit.hs
        away == IF StartsWith1q(props[i].market_type) THEN Through(ap, 1)
                ELSE IF StartsWith1h(props[i].market_type) THEN Through(ap, 2)
                ELSE sit.as
    IN  (/\ last[props[i].id].outcome = "ok"
         /\ (HasSpread(props[i].market_type) \/ HasMoneyline(props[i].market_type))
         /\ in_home # in_away)
          => /\ props[i].current_value = last[props[i].id].value
             /\ props[i].current_value =
                  Some(IF in_home THEN 2 * (home - away) ELSE 2 * (away - home))

\* C24 witness: a moneyline on the away team, refreshed while the away team
\* leads by one point
C24_Witness ==
  /\ props # <<>>
  /\ last[props[1].id].outcome = "ok"
  /\ props[1].market_type = "moneyline"
  /\ props[1].side = <<"chiefs">>
  /\ snap["g1"].header = "home_first"
  /\ snap["g1"].hs = 1
  /\ snap["g1"].as = 2
  /\ props[1].current_value = Some(2)


\* C28: after a successful refresh, a player-stat, spread or moneyline wager
\* has status won, lost or push only if the snapshot's phase is post (or
\* final); for every other phase, unknown included, its status is pending,
\* live_hit, live_miss or live_push.
C28_TerminalOnlyAtPost ==
  \A i \in DOMAIN props :
    (/\ last[props[i].id].outcome = "ok"
     /\ ~HasTotalScore(props[i].market_type)
     /\ ~IsTeamTotal(props[i].market_type))
      => /\ props[i].prop_status \in {"won", "lost", "push"} => IsFinal(props[i].game_state)
         /\ ~IsFinal(props[i].game_state)
              => props[i].prop_status \in {"pending", "live_hit", "live_miss", "live_push"}


\* ------------------------------------------- one total over a moving game
\* what the provider may report for the game: any phase with any home score,
\* the away team having scored once
TotalSituations == {Started(ph, hs, 1) : ph \in Phases, hs \in Scores}

\* one total or team-total wager placed before the game
InitTotals ==
  LET
      \* the total and team-total markets looked at
      TotalMarkets == {"total_score", "1h_total_score", "home_team_points"}
  IN
  /\ id_counter = 2
  /\ raised = FALSE
  /\ calls = NoCalls
  /\ eng = EngIdle
  /\ ApartIdle
  /\ \E m \in TotalMarkets : \E line \in 0..MaxLine : \E side \in OverUnder :
       props = <<NewProp(1, "g1", Empty, Empty, m, line, side)>>
  /\ snap = [g \in Games |-> PreGame]
  /\ combined = <<>>
  /\ last = <<NeverRefreshed>>

\* the provider moves as it likes and every fetch answers
NextTotals ==
  \/ \E sit \in TotalSituations : ProviderUpdate("g1", sit)
  \/ RefreshProps({}, {})

SpecTotals == InitTotals /\ [][NextTotals]_vars

\* C29: for a total_score or team-total wager, from one successful refresh
\* to the next in which the resolved total has not decreased, an over wager
\* that is won stays won and an under wager that is lost stays lost, whatever
\* phase the later snapshot reports.
C29_TotalsSettleForGood ==
  [][\A i \in DOMAIN props :
       (/\ calls' # NoCalls
        /\ (HasTotalScore(props[i].market_type) \/ IsTeamTotal(props[i].market_type))
        /\ last[props[i].id].outcome = "ok"
        /\ last'[props[i].id].outcome = "ok"
        /\ Get(last'[props[i].id].value) >= Get(last[props[i].id].value))
         => /\ (props[i].side = <<"over">> /\ props[i].prop_status = "won")
                 => props'[i].prop_status = "won"
            /\ (props[i].side = <<"under">> /\ props[i].prop_status = "lost")
                 => props'[i].prop_status = "lost"]_vars

\* C29 witness: an under on the game total that was lost is refreshed again
\* while the provider reports the game as running, and is lost still
C29_Witness ==
  /\ props[1].market_type = "total_score"
  /\ props[1].side = <<"under">>
  /\ last[1].outcome = "ok"
  /\ last[1].prev_status = "lost"
  /\ props[1].prop_status = "lost"
  /\ props[1].game_state = "in"
  /\ calls # NoCalls


\* ------------------------------------------------- the basketball resolver
JaylenBrown == <<"Jaylen", "Brown">>

BruceBrown == <<"Bruce", "Brown">>

\* market_to_col of get_nba_player_stat (lines 48-56), "" for a market it
\* does not list
MarketToCol(market_type) ==
  CASE market_type = "points" -> "PTS"
    [] market_type = "rebounds" -> "REB"
    [] market_type = "assists" -> "AST"
    [] market_type = "three_pointers_made" -> "3PT"
    [] market_type = "blocks" -> "BLK"
    [] market_type = "steals" -> "STL"
    [] OTHER -> ""

\* col_indices.get(col) on the column names of a category, counted from 1,
\* 0 for a column the category does not have (lines 85-93)
ColIndex(col_names, col) == FirstIndexIn(col_names, {col})

\* float(raw_val) in half points, Null on ValueError: <<"num", n>> is the
\* string "n", <<"frac", m, a>> the string "m-a", <<"bad">> any other text
FloatOf(raw_val) == IF raw_val[1] = "num" THEN Some(2 * raw_val[2]) ELSE Null

\* the value of a single-stat market parsed from the raw value of its
\* column, Null where the code continues (lines 155-169)
NbaParse(target_col, raw_val) ==
  IF target_col = "3PT" /\ raw_val[1] = "frac" THEN Some(2 * raw_val[2])
  ELSE FloatOf(raw_val)

\* stats_found before it is sorted: for each of the columns in order, the
\* value and the column where the row has the column and the value parses
\* (lines 117-127)
RECURSIVE StatsFound(_, _, _)
StatsFound(cols, col_names, stats_values) ==
  IF cols = <<>> THEN <<>>
  ELSE (IF /\ ColIndex(col_names, Head(cols)) # 0
           /\ ColIndex(col_names, Head(cols)) <= Len(stats_values)
           /\ FloatOf(stats_values[ColIndex(col_names, Head(cols))]) # Null
          THEN <<[val |-> Get(FloatOf(stats_values[ColIndex(col_names, Head(cols))])),
                  col |-> Head(cols)]>>
          ELSE <<>>)
       \o StatsFound(Tail(cols), col_names, stats_values)

\* an entry put into a list sorted by value, highest first, behind the
\* entries of the same value
RECURSIVE InsertDesc(_, _)
InsertDesc(sorted, e) ==
  IF sorted = <<>> THEN <<e>>
  ELSE IF Head(sorted).val >= e.val THEN <<Head(sorted)>> \o InsertDesc(Tail(sorted), e)
  ELSE <<e>> \o sorted

\* stats_found.sort(key=value, reverse=True): stable (line 130)
RECURSIVE SortDesc(_)
SortDesc(found) ==
  IF found = <<>> THEN <<>>
  ELSE InsertDesc(SortDesc(SubSeq(found, 1, Len(found) - 1)), found[Len(found)])

\* display_str (lines 134-136): the parts "<value> <column>" of the two
\* highest, "0 PTS, 0 REB" when nothing was found
DisplayStr(found) ==
  LET
      \* the first two entries of a list
      TopTwo(sorted) == SubSeq(sorted, 1, IF Len(sorted) < 2 THEN Len(sorted) ELSE 2)
  IN
  IF found = <<>> THEN <<[val |-> 0, col |-> "PTS"], [val |-> 0, col |-> "REB"]>>
  ELSE TopTwo(SortDesc(found))

\* how many of the values found are 10 or more
DoubleDigits(found) == Cardinality({i \in DOMAIN found : found[i].val >= 2 * 10})

\* a plausible slip: one category in double digits is enough
DoubleDoubleOfOne(found, team_name, display_name) ==
  [value |-> IF DoubleDigits(found) >= 1 THEN 2 ELSE 0,
   team |-> team_name, player |-> display_name,
   display_value |-> Some(DisplayStr(found))]

\* the result for double_double from the values found (lines 129-145)
DoubleDoubleOf(found, team_name, display_name) ==
  [value |-> IF DoubleDigits(found) >= 2 THEN 2 ELSE 0,
   team |-> team_name, player |-> display_name,
   display_value |-> Some(DisplayStr(found))]


\* what the loop body does with one athlete row (lines 101-169)
NbaRow(athlete_stat, team_name, target_name_lower, market_type, col_names) ==
  LET
      \* target_cols (lines 59-65)
      TargetCols ==
        IF market_type = "double_double" THEN <<"PTS", "REB", "AST", "BLK", "STL">>
        ELSE <<MarketToCol(market_type)>>
      \* what the single-stat branch does with a row of the named athlete (lines
      \* 147-169): it returns a result, or goes on to the next row
      NbaSingle(target_col, col_idx) ==
        IF col_idx = 0 \/ col_idx > Len(athlete_stat.stats) THEN <<"next">>
        ELSE IF NbaParse(target_col, athlete_stat.stats[col_idx]) = Null THEN <<"next">>
        ELSE <<"found", [value |-> Get(NbaParse(target_col, athlete_stat.stats[col_idx])),
                         team |-> team_name, player |-> athlete_stat.displayName,
                         display_value |-> Null]>>
  IN
  IF ~Contains(target_name_lower, Lower(athlete_stat.displayName)) THEN <<"next">>
  ELSE IF market_type = "double_double"
    THEN <<"found", DoubleDoubleOf(StatsFound(TargetCols, col_names,
                                              athlete_stat.stats),
                                   team_name, athlete_stat.displayName)>>
  ELSE NbaSingle(MarketToCol(market_type), ColIndex(col_names, MarketToCol(market_type)))

\* get_nba_player_stat(event_id, player_name, market_type, stats_payload)
GetNbaPlayerStat(data, player_name, market_type) ==
  LET
      \* the rows of one statistics block in order: none for a block without
      \* column names or, for a single-stat market, without the column (lines 79-96)
      NbaCatRows(cat, team_name, target_name_lower) ==
        IF cat.names = <<>> THEN <<>>
        ELSE IF market_type # "double_double" /\ ColIndex(cat.names, MarketToCol(market_type)) = 0
          THEN <<>>
        ELSE [i \in DOMAIN cat.athletes |->
                NbaRow(cat.athletes[i], team_name, target_name_lower, market_type, cat.names)]
      \* every row of the boxscore in the order the nested loops visit it
      NbaAllRows(target_name_lower) ==
        Flatten([b \in DOMAIN data.players |->
          Flatten([c \in DOMAIN data.players[b].statistics |->
            NbaCatRows(data.players[b].statistics[c], BlockTeamName(data.players[b]),
                       target_name_lower)])])
      \* the outcome of walking the rows: the first row that returns decides,
      \* None when every row is passed over
      FirstDecided(rows) ==
        IF \E i \in DOMAIN rows : rows[i][1] = "found"
          THEN Some(rows[CHOOSE k \in DOMAIN rows :
                           rows[k][1] = "found" /\ \A j \in 1..(k - 1) : rows[j][1] = "next"][2])
          ELSE Null
  IN
  IF market_type # "double_double" /\ MarketToCol(market_type) = "" THEN Null
  ELSE FirstDecided(NbaAllRows(Lower(player_name)))


\* ------------------------------------------------- one call of a resolver
FullRow ==
  <<<<"num", 20>>, <<"num", 10>>, <<"frac", 2, 4>>, <<"num", 10>>, <<"num", 1>>,
    <<"num", 0>>, <<"num", 0>>>>

\* the payload fetch_nba_game_player_stats returns: one team block with one
\* statistics block
NbaPayload(phase, col_names, athletes) ==
  LET
      BostonCeltics == <<"Boston", "Celtics">>
  IN
  [game_state |-> phase,
   status_detail |-> <<"detail", phase>>,
   players |-> <<[team |-> BostonCeltics,
                  statistics |-> <<[names |-> col_names, athletes |-> athletes]>>]>>]

\* the football boxscore with a passing category in front
ResolverBox(passers, rushers, receivers) ==
  <<[team |-> BuffaloBills,
     statistics |-> <<Category("passing", <<"passingYards", "passingTouchdowns">>, passers),
                      Category("rushing", <<"rushingYards", "rushingTouchdowns">>, rushers),
                      Category("receiving", <<"receivingYards", "receivingTouchdowns">>,
                               receivers)>>]>>

\* the athlete lists of its categories; Jared Allen's yards are dashes
ResolverLists ==
  LET
      JaredAllen == <<"Jared", "Allen">>
  IN
  {<<>>, <<JoshAllen>>, <<JaredAllen, KeenanAllen>>, <<KeenanAllen, JoshAllen>>}

\* the football payloads a resolver call is made on
NflResolverData ==
  {[Payload(ph, HomeFirst(ph, 1, 0), <<>>, <<>>) EXCEPT !.players = ResolverBox(pa, ru, re)] :
     ph \in {"pre", "in"}, pa \in ResolverLists, ru \in ResolverLists, re \in ResolverLists}

\* the basketball payloads a resolver call is made on
NbaResolverData ==
  LET
      \* the athletes of the block: the athlete alone, behind or before a team
      \* mate of the same last name
      NbaAthletes(row) ==
        LET
            \* a team mate whose row carries dashes, a team mate with a full row
            DashRow ==
              <<<<"num", 20>>, <<"bad">>, <<"bad">>, <<"bad">>, <<"num", 1>>, <<"num", 0>>,
                <<"num", 0>>>>
        IN
        {<<[displayName |-> JaylenBrown, stats |-> row]>>,
         <<[displayName |-> BruceBrown, stats |-> DashRow],
           [displayName |-> JaylenBrown, stats |-> row]>>,
         <<[displayName |-> JaylenBrown, stats |-> row],
           [displayName |-> BruceBrown, stats |-> FullRow]>>}
      \* the stats rows of the athlete looked for, in the order of the full list;
      \* the last is cut short behind the points
      NbaRows ==
        {<<<<"num", 30>>, pts, <<"frac", 1, 5>>, reb, ast, stl, <<"num", 0>>>> :
           pts \in {<<"num", 9>>, <<"num", 12>>, <<"bad">>},
           reb \in {<<"num", 10>>, <<"num", 9>>},
           ast \in {<<"num", 12>>, <<"num", 0>>, <<"bad">>},
           stl \in {<<"num", 0>>, <<"num", 10>>}}
        \cup {<<<<"num", 30>>, <<"num", 12>>>>}
      \* the column names a basketball statistics block may carry: the full list,
      \* a short one, none
      NbaColumns ==
        {<<"MIN", "PTS", "3PT", "REB", "AST", "STL", "BLK">>, <<"MIN", "PTS", "REB">>, <<>>}
  IN
  UNION {{NbaPayload("in", col_names, athletes) : athletes \in NbaAthletes(row)} :
           col_names \in NbaColumns, row \in NbaRows}

\* a call of a resolver about to be made
ResolverCall(sport, data, player_name, market_type, finder_fails) ==
  [phase |-> "input", sport |-> sport, data |-> data, player_name |-> player_name,
   market_type |-> market_type, finder_fails |-> finder_fails,
   raised |-> FALSE, result |-> Null]

\* get_nfl_player_stat or get_nba_player_stat on the payload passed in; the
\* fetch find_player makes fails when finder_fails, and nothing in the
\* resolver catches that
Resolve ==
  /\ res.phase = "input"
  /\ res' = [res EXCEPT
       !.phase = "done",
       !.raised = /\ res.sport = "nfl"
                  /\ res.finder_fails
                  /\ NeedsFinder(res.data, res.player_name, res.market_type),
       !.result = IF res.sport = "nba"
                    THEN GetNbaPlayerStat(res.data, res.player_name, res.market_type)
                  ELSE IF res.finder_fails
                          /\ NeedsFinder(res.data, res.player_name, res.market_type)
                    THEN Null
                  ELSE GetNflPlayerStat(res.data, res.player_name, res.market_type)]
  /\ UNCHANGED <<props, id_counter, snap, combined, last, raised, calls, eng, req, boards,
                 removed>>

InitResolver ==
  LET
      NbaMarkets == {"double_double", "points", "three_pointers_made", "assists", "no_such_market"}
      NbaQueries == {<<"Brown">>, <<"jaylen", "brown">>, <<"Tatum">>}
      NflResolverMarkets == PlayerMarkets \cup {"passing_yards"}
      \* the names and markets asked for
      NflQueries == PlayerQueries \cup {<<"jared", "allen">>}
  IN
  /\ props = <<>>
  /\ id_counter = 1
  /\ snap = [g \in Games |-> PreGame]
  /\ combined = <<>>
  /\ last = <<>>
  /\ raised = FALSE
  /\ calls = NoCalls
  /\ eng = EngIdle
  /\ req = ReqIdle
  /\ boards = [d \in Boards |-> <<>>]
  /\ removed = {}
  /\ \/ \E data \in NflResolverData : \E name \in NflQueries :
          \E m \in NflResolverMarkets : \E finder_fails \in BOOLEAN :
            /\ finder_fails => NeedsFinder(data, name, m)
            /\ res = ResolverCall("nfl", data, name, m, finder_fails)
     \/ \E data \in NbaResolverData : \E name \in NbaQueries : \E m \in NbaMarkets :
          res = ResolverCall("nba", data, name, m, FALSE)

SpecResolver == InitResolver /\ [][Resolve]_vars


\* C25: for a derived statistic (rushing_receiving_yards,
\* passing_rushing_yards) the resolver returns the sum of the two base
\* statistics resolved independently for the same subject; if exactly one
\* base resolves it returns that base's value, annotated with the player and
\* team of the base that was found; if neither resolves it returns not-found.
C25_DerivedIsSumOfBases ==
  (/\ res.phase = "done"
   /\ res.sport = "nfl"
   /\ res.market_type \in {"rushing_receiving_yards", "passing_rushing_yards"})
    => LET first == IF res.market_type = "rushing_receiving_yards"
                      THEN GetNflPlayerStat(res.data, res.player_name, "rushing_yards")
                      ELSE GetNflPlayerStat(res.data, res.player_name, "passing_yards")
           second == IF res.market_type = "rushing_receiving_yards"
                       THEN GetNflPlayerStat(res.data, res.player_name, "receiving_yards")
                       ELSE GetNflPlayerStat(res.data, res.player_name, "rushing_yards")
       IN  /\ ~res.raised
           /\ (first # Null /\ second # Null)
                => /\ res.result # Null
                   /\ Get(res.result).value = Get(first).value + Get(second).value
           /\ (first # Null /\ second = Null) => res.result = first
           /\ (first = Null /\ second # Null) => res.result = second
           /\ (first = Null /\ second = Null) => res.result = Null

\* C25 witness: passing plus rushing yards asked for a player who has a
\* rushing row and no passing row: the rushing value alone, under the name
\* and team of the rushing row
C25_Witness ==
  /\ res.phase = "done"
  /\ res.sport = "nfl"
  /\ res.market_type = "passing_rushing_yards"
  /\ res.player_name = <<"keenan", "allen">>
  /\ GetNflPlayerStat(res.data, res.player_name, "passing_yards") = Null
  /\ res.result = Some([value |-> 4, team |-> BuffaloBills, player |-> KeenanAllen])


\* C26: when the raw value of the first player matching the subject, in the
\* first statistics category of the market, cannot be parsed as a number,
\* the resolver returns not-found without raising; it does not return a
\* value that belongs to another player.
C26_UnparsableIsNotFound ==
  (/\ res.phase = "done"
   /\ \/ res.sport = "nfl" /\ InStatMapping(res.market_type)
      \/ res.sport = "nba" /\ MarketToCol(res.market_type) # "")
    => LET cats == res.data.players[1].statistics
           Fits(c) == IF res.sport = "nfl"
                        THEN /\ cats[c].name = StatMapping(res.market_type).group
                             /\ TargetIndex(cats[c], StatMapping(res.market_type).keys) # 0
                        ELSE ColIndex(cats[c].names, MarketToCol(res.market_type)) # 0
           Column(c) == IF res.sport = "nfl"
                          THEN TargetIndex(cats[c], StatMapping(res.market_type).keys)
                          ELSE ColIndex(cats[c].names, MarketToCol(res.market_type))
           Matches(c, i) == Contains(Lower(res.player_name),
                                     Lower(cats[c].athletes[i].displayName))
           Parsed(c, i) == IF res.sport = "nfl"
                             THEN ParseRaw(res.market_type, cats[c].athletes[i].stats[Column(c)])
                             ELSE NbaParse(MarketToCol(res.market_type),
                                           cats[c].athletes[i].stats[Column(c)])
       IN  \A c \in DOMAIN cats : \A i \in DOMAIN cats[c].athletes :
             (/\ Fits(c)
              /\ \A b \in 1..(c - 1) : ~Fits(b)
              /\ Matches(c, i)
              /\ \A j \in 1..(i - 1) : ~Matches(c, j)
              /\ Column(c) <= Len(cats[c].athletes[i].stats)
              /\ Parsed(c, i) = Null)
               => /\ ~res.raised
                  /\ res.result = Null


\* C27: for double_double the resolver returns 1.0 exactly when at least two
\* of the points, rebounds, assists, blocks and steals of the first athlete
\* whose name contains the query are 10 or more, and 0.0 otherwise; its
\* display lists the two highest of those categories with their values,
\* highest first (the only one when the row carries a number for a single
\* category).
C27_DoubleDouble ==
  (/\ res.phase = "done"
   /\ res.sport = "nba"
   /\ res.market_type = "double_double"
   /\ res.data.players[1].statistics[1].names # <<>>
   /\ \E i \in DOMAIN res.data.players[1].statistics[1].athletes :
        Contains(Lower(res.player_name),
                 Lower(res.data.players[1].statistics[1].athletes[i].displayName)))
    => LET cat == res.data.players[1].statistics[1]
           i == CHOOSE k \in DOMAIN cat.athletes :
                  /\ Contains(Lower(res.player_name), Lower(cat.athletes[k].displayName))
                  /\ \A j \in 1..(k - 1) :
                       ~Contains(Lower(res.player_name), Lower(cat.athletes[j].displayName))
           row == cat.athletes[i].stats
           Col(c) == ColIndex(cat.names, c)
           Known == {c \in {"PTS", "REB", "AST", "BLK", "STL"} :
                       Col(c) # 0 /\ Col(c) <= Len(row) /\ row[Col(c)][1] = "num"}
           Val(c) == 2 * row[Col(c)][2]
           shown == Get(Get(res.result).display_value)
       IN  /\ res.result # Null
           /\ Get(res.result).player = cat.athletes[i].displayName
           /\ Get(res.result).value \in {0, 2}
           /\ Get(res.result).value = 2 <=> Cardinality({c \in Known : Val(c) >= 2 * 10}) >= 2
           /\ Get(res.result).display_value # Null
           /\ Known # {} =>
                /\ Len(shown) = (IF Cardinality(Known) >= 2 THEN 2 ELSE 1)
                /\ \A k \in DOMAIN shown : shown[k].col \in Known /\ shown[k].val = Val(shown[k].col)
                /\ Len(shown) = 2 => shown[1].col # shown[2].col /\ shown[1].val >= shown[2].val
                /\ \A c \in Known : (\A k \in DOMAIN shown : shown[k].col # c)
                                      => Val(c) <= shown[Len(shown)].val

\* C27 witness: 9 points, 10 rebounds and 12 assists: a double double, shown
\* as the assists before the rebounds
C27_Witness ==
  /\ res.phase = "done"
  /\ res.sport = "nba"
  /\ res.market_type = "double_double"
  /\ res.result # Null
  /\ Get(res.result).value = 2
  /\ Get(res.result).player = JaylenBrown
  /\ Get(res.result).display_value =
       Some(<<[val |-> 2 * 12, col |-> "AST"], [val |-> 2 * 10, col |-> "REB"]>>)


\* ------------------------------------- the refresh-parlay-legs endpoint
\* the longest list of legs a stored parlay has
MaxLegs == 3

\* a leg as the bet stores it: the keys the endpoint reads, and the derived
\* keys a refresh writes, absent so far.  A leg without a game has the event
\* id ""; a regular leg has no sub-subjects
StoredLeg(sport, event_id, is_combined, names, player_name, market_type, line, side) ==
  [sport |-> sport, event_id |-> event_id, is_combined |-> is_combined,
   combined_players |-> [k \in DOMAIN names |->
                           [player_name |-> names[k], team_name |-> Empty,
                            current_value |-> Null, game_state |-> Null]],
   player_name |-> player_name, team_name |-> Empty,
   market_type |-> market_type, line |-> line, side |-> side,
   current_value |-> Null, current_value_str |-> Null, game_state |-> Null,
   game_status_text |-> Null, prop_status |-> Null]

\* the payload the fetch of a sport returns for each game right now
\* (bets.py lines 76-82)
SportFetch(sport) ==
  LET
      \* what fetch_nba_game_player_stats returns for a game: the phase the
      \* provider holds, and a fixed boxscore
      NbaGame(sit) ==
        NbaPayload(sit.phase, <<"MIN", "PTS", "3PT", "REB", "AST", "STL", "BLK">>,
                   <<[displayName |-> JaylenBrown, stats |-> FullRow]>>)
  IN
  IF sport = "nba" THEN [g \in Games |-> NbaGame(snap[g])] ELSE Fetch

\* the logs of two runs of provider calls, one after the other
CatCalls(a, b) == [g \in Games |-> a[g] \o b[g]]

\* the indices of a list, in order
Indices(s) == [i \in 1..Len(s) |-> i]

\* the test that makes a leg with a game a combined leg (line 356)
IsCombinedLeg(leg) == leg.is_combined /\ leg.combined_players # <<>>

\* dashboard.refresh_props on the wagers built from the regular legs of a
\* sport (lines 373-384): whether it raised, and the provider calls it made.
\* A basketball lookup never calls find_player
DashboardRefresh(sport, ps, down, finder_down) ==
  IF ps = <<>> THEN [raised |-> FALSE, calls |-> NoCalls]
  ELSE IF sport = "nba"
    THEN [raised |-> FALSE,
          calls |-> [g \in Games |->
                       IF g \in FetchedGames(ps)
                         THEN <<IF g \in down THEN "failed" ELSE "ok">> ELSE <<>>]]
  ELSE CHOOSE r \in {[raised |-> acc.raised, calls |-> acc.calls] :
                      acc \in {RefreshLoop([props |-> ps,
                                            last |-> [i \in DOMAIN ps |-> NeverRefreshed],
                                            raised |-> FALSE, calls |-> NoCalls],
                                           RefreshOrder(ps), Fetch, down, finder_down)}} :
         TRUE

\* _refresh_combined_prop(leg, sport, fetcher): the leg as it went in when
\* the fetch fails, else the leg refreshed by the resolver of the sport
RefreshCombinedProp(leg, sport, down, finder_down) ==
  IF leg.event_id \in down THEN leg
  ELSE IF sport = "nba"
    THEN LegSummed(leg, SportFetch(sport)[leg.event_id],
                   [k \in DOMAIN Named(leg.combined_players) |->
                      PlayerEntry(Named(leg.combined_players)[k],
                                  SportFetch(sport)[leg.event_id],
                                  GetNbaPlayerStat(SportFetch(sport)[leg.event_id],
                                                   Named(leg.combined_players)[k].player_name,
                                                   leg.market_type))])
  ELSE RefreshCombinedLeg(leg, Fetch[leg.event_id], leg.event_id \in finder_down)

\* the provider calls of the combined legs at the indices given, in order
RECURSIVE CombinedLegsCalls(_, _, _, _, _)
CombinedLegsCalls(combined_legs, legs, sport, down, finder_down) ==
  LET
      \* the provider calls of one _refresh_combined_prop of a sport
      CombinedPropCalls(leg) ==
        IF sport = "nba"
          THEN [NoCalls EXCEPT ![leg.event_id] =
                  <<IF leg.event_id \in down THEN "failed" ELSE "ok">>]
          ELSE CombinedCalls(leg, Fetch[leg.event_id], leg.event_id \in down,
                             leg.event_id \in finder_down)
  IN
  IF combined_legs = <<>> THEN NoCalls
  ELSE CatCalls(CombinedPropCalls(legs[Head(combined_legs)]),
                CombinedLegsCalls(Tail(combined_legs), legs, sport, down, finder_down))

\* the body of the loop over legs_by_sport for one sport (lines 342-414):
\* the pairs it appends to updated_legs, the provider calls it makes, and
\* whether it raised.  Reading prop.last_play (line 399) raises, PlayerProp
\* has no such attribute, as soon as a regular leg is mapped back
SportGroup(legs, sport, down, finder_down) ==
  LET sport_legs == SelectSeq(Indices(legs), LAMBDA i : legs[i].sport = sport)
      skipped == SelectSeq(sport_legs, LAMBDA i : legs[i].event_id = "")
      combined_legs == SelectSeq(sport_legs,
                         LAMBDA i : legs[i].event_id # "" /\ IsCombinedLeg(legs[i]))
      regular_legs == SelectSeq(sport_legs,
                        LAMBDA i : legs[i].event_id # "" /\ ~IsCombinedLeg(legs[i]))
      dashboard == [k \in DOMAIN regular_legs |->
                      NewProp(k, legs[regular_legs[k]].event_id,
                              legs[regular_legs[k]].player_name,
                              legs[regular_legs[k]].team_name,
                              legs[regular_legs[k]].market_type,
                              legs[regular_legs[k]].line, legs[regular_legs[k]].side)]
      Group(refreshed) ==
        LET mapping_raises == regular_legs # <<>> /\ ~refreshed.raised
        IN  [raised |-> mapping_raises,
             updated_legs |->
                [k \in DOMAIN skipped |-> <<skipped[k], legs[skipped[k]]>>]
                \o (IF refreshed.raised
                      THEN [k \in DOMAIN regular_legs |->
                              <<regular_legs[k], legs[regular_legs[k]]>>]
                      ELSE <<>>)
                \o [k \in DOMAIN combined_legs |->
                      <<combined_legs[k],
                        RefreshCombinedProp(legs[combined_legs[k]], sport, down, finder_down)>>],
             calls |-> IF mapping_raises THEN refreshed.calls
                       ELSE CatCalls(refreshed.calls,
                                     CombinedLegsCalls(combined_legs, legs, sport, down,
                                                       finder_down))]
  IN  CHOOSE r \in {Group(refreshed) :
                      refreshed \in {DashboardRefresh(sport, dashboard, down, finder_down)}} :
        TRUE

\* the loop over legs_by_sport (line 342), left when a group raises
RECURSIVE SportGroups(_, _, _, _, _)
SportGroups(acc, sports, legs, down, finder_down) ==
  IF sports = <<>> \/ acc.raised THEN acc
  ELSE CHOOSE r \in {SportGroups([raised |-> group.raised,
                                   updated_legs |-> acc.updated_legs \o group.updated_legs,
                                   calls |-> CatCalls(acc.calls, group.calls)],
                                  Tail(sports), legs, down, finder_down) :
                      group \in {SportGroup(legs, Head(sports), down, finder_down)}} :
         TRUE

\* a plausible slip: the legs go out in the order the sport groups
\* appended them
SortedByIndexNot(updated_legs, n) == updated_legs

\* updated_legs.sort(key=index) (line 417) on indices out of 1..n
SortedByIndex(updated_legs, n) ==
  Flatten([i \in 1..n |-> SelectSeq(updated_legs, LAMBDA e : e[1] = i)])

\* the loop over parlay_bets (lines 321-433), left when a parlay raises; a
\* parlay without legs is passed over
RECURSIVE ParlayLoop(_, _, _, _)
ParlayLoop(acc, parlay_bets, down, finder_down) ==
  LET
      \* final_legs (lines 417-428): the legs in index order, an original leg
      \* where none was appended
      FinalLegs(updated_legs, legs) ==
        LET sorted == SortedByIndex(updated_legs, Len(legs))
        IN  IF Len(sorted) < Len(legs)
              THEN [i \in DOMAIN legs |->
                      IF \E k \in DOMAIN updated_legs : updated_legs[k][1] = i
                        THEN updated_legs[CHOOSE k \in DOMAIN updated_legs :
                               /\ updated_legs[k][1] = i
                               /\ \A j \in (k + 1)..Len(updated_legs) : updated_legs[j][1] # i][2]
                        ELSE legs[i]]
              ELSE [k \in DOMAIN sorted |-> sorted[k][2]]
      \* legs_by_sport (lines 334-339): the sports of the legs in order of first
      \* appearance
      SportsOf(legs) ==
        LET firsts == SelectSeq(Indices(legs),
                                LAMBDA i : \A j \in 1..(i - 1) : legs[j].sport # legs[i].sport)
        IN  [k \in DOMAIN firsts |-> legs[firsts[k]].sport]
  IN
  IF parlay_bets = <<>> \/ acc.raised THEN acc
  ELSE IF Head(parlay_bets).legs = <<>>
    THEN ParlayLoop(acc, Tail(parlay_bets), down, finder_down)
  ELSE LET legs == Head(parlay_bets).legs
       IN  CHOOSE r \in
             {ParlayLoop([raised |-> done.raised,
                          updated_parlays |->
                             IF done.raised THEN acc.updated_parlays
                             ELSE Append(acc.updated_parlays,
                                         [id |-> Head(parlay_bets).id,
                                          legs |-> FinalLegs(done.updated_legs, legs)]),
                          calls |-> CatCalls(acc.calls, done.calls)],
                         Tail(parlay_bets), down, finder_down) :
                done \in {SportGroups([raised |-> FALSE, updated_legs |-> <<>>,
                                       calls |-> NoCalls],
                                      SportsOf(legs), legs, down, finder_down)}} :
             TRUE

\* a request about to be served: the stored bets of the user, the ids asked
\* for, and the games for which the provider fails
ParlayRequest(all_bets, bet_ids, down, finder_down) ==
  [phase |-> "input", all_bets |-> all_bets, bet_ids |-> bet_ids, down |-> down,
   finder_down |-> finder_down, status_code |-> 0, parlays |-> <<>>]

\* POST /refresh-parlay-legs (lines 298-442): the response is the list of
\* updated parlays, or the answer 500 of the outer except
RefreshParlayLegs ==
  LET
      \* parlay_bets (line 314): the stored bets asked for that are parlays
      ParlayBets(all_bets, bet_ids) ==
        SelectSeq(all_bets, LAMBDA b : b.id \in bet_ids /\ b.type = "Parlay")
  IN
  /\ req.phase = "input"
  /\ \E done \in {ParlayLoop([raised |-> FALSE, updated_parlays |-> <<>>, calls |-> NoCalls],
                             ParlayBets(req.all_bets, req.bet_ids), req.down,
                             req.finder_down)} :
         /\ req' = [req EXCEPT !.phase = "done",
                               !.status_code = IF done.raised THEN 500 ELSE 200,
                               !.parlays = IF done.raised THEN <<>> ELSE done.updated_parlays]
         /\ calls' = done.calls
  /\ UNCHANGED <<props, id_counter, snap, combined, last, raised, eng, res, boards, removed>>

\* the legs parlays are stored with: regular legs on the score and on a
\* player the roster lookup is needed for, a regular basketball leg, a
\* combined leg of each sport, a leg without a game
LegPool ==
  {StoredLeg("nfl", "g1", FALSE, <<>>, Empty, "total_score", 2, <<"over">>),
   StoredLeg("nfl", "g1", FALSE, <<>>, <<"Kelce">>, "anytime_touchdowns", 1, <<"under">>),
   StoredLeg("nba", "g2", FALSE, <<>>, <<"Brown">>, "points", 2 * 10, <<"over">>),
   StoredLeg("nfl", "g1", TRUE, <<<<"Allen">>, <<"Kelce">>>>, Empty, "anytime_touchdowns", 1,
             <<"Over">>),
   StoredLeg("nba", "g2", TRUE, <<<<"Brown">>, <<"Tatum">>>>, Empty, "points", 2 * 10,
             <<"over">>),
   StoredLeg("nba", "", FALSE, <<>>, <<"Brown">>, "points", 2, <<"over">>)}

InitParlay ==
  LET
      \* the lists of legs of the first stored bet
      LegLists == UNION {[1..n -> LegPool] : n \in 0..MaxLegs}
      \* the second stored bet: a parlay on the games of the first, or a single
      \* wager
      SecondBets ==
        {[id |-> "b2", type |-> "Parlay",
          legs |-> <<StoredLeg("nfl", "g1", TRUE, <<<<"keenan", "allen">>>>, Empty, "rushing_yards",
                               1, <<"over">>),
                     StoredLeg("nfl", "", TRUE, <<<<"Allen">>>>, Empty, "rushing_yards", 1,
                               <<"under">>)>>],
         [id |-> "b2", type |-> "Prop", legs |-> <<>>]}
  IN
  /\ props = <<>>
  /\ id_counter = 1
  /\ \E sit \in {PreGame, Started("post", 1, 1)} :
       snap = [g \in Games |-> IF g = "g1" THEN sit ELSE PreGame]
  /\ combined = <<>>
  /\ last = <<>>
  /\ raised = FALSE
  /\ calls = NoCalls
  /\ eng = EngIdle
  /\ res = ResIdle
  /\ boards = [d \in Boards |-> <<>>]
  /\ removed = {}
  /\ \E legs \in LegLists : \E second \in SecondBets : \E bet_ids \in {{"b1"}, {"b1", "b2"}} :
       \E down \in {{}, {"g1"}, {"g2"}} : \E finder_down \in {{}, {"g1"}} :
         req = ParlayRequest(<<[id |-> "b1", type |-> "Parlay", legs |-> legs], second>>,
                             bet_ids, down, finder_down)

SpecParlay == InitParlay /\ [][RefreshParlayLegs]_vars


\* C21: every parlay refresh_parlay_legs returns has as many legs as the
\* stored parlay of its id, and its i-th leg is the i-th stored leg, as it
\* was stored or with its derived fields refreshed, whatever the mix of
\* sports, missing event ids, combined legs and refresh failures.
C21_LegsKeepTheirOrder ==
  (req.phase = "done" /\ req.status_code = 200)
    => \A k \in DOMAIN req.parlays :
         \E b \in DOMAIN req.all_bets :
           /\ req.all_bets[b].id = req.parlays[k].id
           /\ req.all_bets[b].type = "Parlay"
           /\ Len(req.parlays[k].legs) = Len(req.all_bets[b].legs)
           /\ \A i \in DOMAIN req.all_bets[b].legs :
                LET stored == req.all_bets[b].legs[i]
                    out == req.parlays[k].legs[i]
                IN  \/ out = stored
                    \/ /\ out.prop_status # Null
                       /\ out.current_value # Null
                       /\ out.sport = stored.sport
                       /\ out.event_id = stored.event_id
                       /\ out.is_combined = stored.is_combined
                       /\ out.player_name = stored.player_name
                       /\ out.market_type = stored.market_type
                       /\ out.line = stored.line
                       /\ out.side = stored.side
                       /\ Len(out.combined_players) = Len(stored.combined_players)

\* C21 witness: a parlay of a combined football leg, a basketball leg
\* without a game and a regular football leg whose refresh raised comes back
\* in that order, the first leg refreshed and the other two as stored
C21_Witness ==
  /\ req.phase = "done"
  /\ req.status_code = 200
  /\ req.parlays # <<>>
  /\ Len(req.parlays[1].legs) = 3
  /\ req.parlays[1].legs[1].sport = "nfl"
  /\ req.parlays[1].legs[1].is_combined
  /\ req.parlays[1].legs[1].prop_status # Null
  /\ req.parlays[1].legs[2].sport = "nba"
  /\ req.parlays[1].legs[2].event_id = ""
  /\ req.parlays[1].legs[3].sport = "nfl"
  /\ req.parlays[1].legs[3].event_id = "g1"
  /\ ~req.parlays[1].legs[3].is_combined
  /\ req.parlays[1].legs[3] = req.all_bets[1].legs[3]

\* C22: in one refresh_parlay_legs request the snapshot of a game is fetched
\* once, also when legs of two parlays, or a regular and a combined leg,
\* refer to the same game.
C22_OneFetchPerGame ==
  req.phase = "done" => \A g \in Games : Len(calls[g]) <= 1

====
